---------------------------- MODULE Spec2Model ----------------------------
(***************************************************************************)
(* PyMineHub: the RakNet protocol endpoint (src/pyminehub/raknet/server.py) *)
(* and the per-remote Session it drives.  The endpoint is translated from  *)
(* server.py.  The Session class (pyminehub/raknet/session.py) and the     *)
(* game data handler (pyminehub/mcpe/network/handler.py) are not among the *)
(* source files at hand; they are modelled from spec.md sections 3, 4.C    *)
(* and 4.D and are marked as such where they are defined.                  *)
(***************************************************************************)
EXTENDS Integers, Sequences, FiniteSets, TLC

(***************************************************************************)
(* Bounds of the model.                                                    *)
(***************************************************************************)
\* ordering channels modelled: 0 .. NumChannels-1 (the program has 0..31)
NumChannels == 2
\* order indices the remote sender uses per channel: 0 .. MaxOrder-1
MaxOrder == 2
\* fragments of the one split payload of the receive universe
MaxFrag == 3
\* frame-set sequence numbers the remote may use: 0 .. MaxSeq-1
MaxSeq == 2
\* datagrams the endpoint receives in the receive specifications
MaxRecv == 3
\* datagrams the endpoint receives in the endpoint specification
MaxDatagrams == 4
\* payloads the sender enqueues in the link specification
MaxSend == 2
\* datagrams the network drops in the link specification
MaxLoss == 2

Channels == 0 .. (NumChannels - 1)

(***************************************************************************)
(* Reliability modes of a frame (spec.md 4.B, flag bits 7..5).             *)
(***************************************************************************)
UNRELIABLE == "UNRELIABLE"
UNRELIABLE_SEQUENCED == "UNRELIABLE_SEQUENCED"
RELIABLE == "RELIABLE"
RELIABLE_ORDERED == "RELIABLE_ORDERED"
RELIABLE_SEQUENCED == "RELIABLE_SEQUENCED"

IsReliable(rel) == rel \in {RELIABLE, RELIABLE_ORDERED, RELIABLE_SEQUENCED}
IsSequenced(rel) == rel \in {UNRELIABLE_SEQUENCED, RELIABLE_SEQUENCED}
IsOrdered(rel) == rel = RELIABLE_ORDERED

\* a frame that is not a fragment carries no split descriptor
NoSplit == [count |-> 0, id |-> 0, index |-> 0]

\* A frame.  Fields a reliability mode does not carry are -1.
Frame(rel, ridx, sidx, oidx, chan, split, payload) ==
    [rel |-> rel, ridx |-> ridx, sidx |-> sidx, oidx |-> oidx, chan |-> chan,
     split |-> split, payload |-> payload]

(***************************************************************************)
(* Finite maps (Python dicts): functions whose DOMAIN is the key set.      *)
(***************************************************************************)
\* the element of a one-element set; Only({e(x) : x \in {v}}) is e of the
\* value of v, with v evaluated once
Only(S) == CHOOSE r \in S : TRUE

EmptyMap == [k \in {} |-> 0]
MapPut(m, k, v) == [x \in (DOMAIN m) \cup {k} |-> IF x = k THEN v ELSE m[x]]
MapDel(m, K) == [x \in (DOMAIN m) \ K |-> m[x]]

(***************************************************************************)
(* Session: per-remote state (spec.md section 3).                          *)
(***************************************************************************)
MaxSplitBuffers == 64
\* default of the cap on the retransmit_queue (spec.md 4.E "Resource bounds")
RetransmitCap == 1024

\* no address
NoAddr == "none"

\* addr is the address the session's two callbacks carry: the one its
\* payloads are delivered with and its datagrams are sent to
NewSession(sid, mtu) ==
    [sid |-> sid, mtu |-> mtu, addr |-> NoAddr, closed |-> FALSE,
     retransmit_cap |-> RetransmitCap,
     expected_recv_seq_num |-> 0,
     ack_queue |-> {}, nack_queue |-> {},
     next_expected |-> [c \in Channels |-> 0],
     recv_order_buffer |-> [c \in Channels |-> EmptyMap],
     last_seen_sequence |-> [c \in Channels |-> -1],
     split_buffers |-> EmptyMap,
     send_seq_num |-> 0, send_reliable_index |-> 0,
     send_order_index |-> [c \in Channels |-> 0],
     next_split_id |-> 0,
     pending |-> <<>>,
     retransmit_queue |-> EmptyMap]

\* Session(loop, mtu_size, deliver, send) with the two lambdas closed over addr
SessionOf(sid, mtu, addr) == [NewSession(sid, mtu) EXCEPT !.addr = addr]

(***************************************************************************)
(* Session receive path (spec.md 4.C "Receive path").  The operators work  *)
(* on an accumulator [s |-> session, up |-> frames surfaced so far].       *)
(***************************************************************************)
\* step 3: the payload goes to the upper layer
Surface(acc, f) == [acc EXCEPT !.up = Append(@, f)]

\* after the expected frame surfaced: surface every buffered successor whose
\* index now matches
RECURSIVE DrainOrdered(_, _)
DrainOrdered(acc, c) ==
    LET n == acc.s.next_expected[c]
        buf == acc.s.recv_order_buffer[c]
    IN  IF n \in DOMAIN buf
        THEN DrainOrdered(
                 [s |-> [acc.s EXCEPT !.next_expected[c] = n + 1,
                                      !.recv_order_buffer[c] = MapDel(buf, {n})],
                  up |-> Append(acc.up, buf[n])], c)
        ELSE acc

\* a delivery that keeps one ordering domain (channel 0's) for all channels
DeliverOrderedOneDomain(acc, f) ==
    IF f.oidx = acc.s.next_expected[0]
    THEN DrainOrdered(Surface([acc EXCEPT !.s.next_expected[0] = @ + 1], f), 0)
    ELSE [acc EXCEPT !.s.recv_order_buffer[0] = MapPut(@, f.oidx, f)]

\* step 2, "If ordered"
DeliverOrdered(acc, f) ==
    IF f.oidx = acc.s.next_expected[f.chan]
    THEN DrainOrdered(
             Surface([acc EXCEPT !.s.next_expected[f.chan] = @ + 1], f), f.chan)
    ELSE [acc EXCEPT !.s.recv_order_buffer[f.chan] = MapPut(@, f.oidx, f)]

\* step 2, "If sequenced"
DeliverSequenced(acc, f) ==
    IF f.sidx > acc.s.last_seen_sequence[f.chan]
    THEN Surface([acc EXCEPT !.s.last_seen_sequence[f.chan] = f.sidx], f)
    ELSE acc

\* step 2 for a frame that is not (or no longer) a fragment.  A frame that is
\* neither ordered nor sequenced (UNRELIABLE, RELIABLE) surfaces immediately.
Deliver(acc, f) ==
    IF IsOrdered(f.rel) THEN DeliverOrdered(acc, f)
    ELSE IF IsSequenced(f.rel) THEN DeliverSequenced(acc, f)
    ELSE Surface(acc, f)

\* the fragments of a complete split buffer, concatenated by split_index
RECURSIVE ConcatFragments(_, _, _)
ConcatFragments(received, i, count) ==
    IF i >= count THEN <<>>
    ELSE received[i] \o ConcatFragments(received, i + 1, count)

\* a reassembly that takes the buffer for complete one fragment early
PlaceSplitEarly(acc, f) ==
    LET bufs == acc.s.split_buffers
        id == f.split.id
        known == id \in DOMAIN bufs
        buf == IF known THEN bufs[id]
               ELSE [count |-> f.split.count, received |-> EmptyMap]
        received == MapPut(buf.received, f.split.index, f.payload)
        have == [i \in 0 .. (buf.count - 1) |->
                    IF i \in DOMAIN received THEN received[i] ELSE <<>>]
    IN  IF (~known /\ Cardinality(DOMAIN bufs) >= MaxSplitBuffers)
           \/ buf.count # f.split.count
           \/ f.split.index \notin 0 .. (buf.count - 1)
        THEN acc
        ELSE IF Cardinality(DOMAIN received) >= buf.count - 1
        THEN Deliver([acc EXCEPT !.s.split_buffers = MapDel(bufs, {id})],
                     [f EXCEPT !.split = NoSplit,
                               !.payload = ConcatFragments(have, 0, buf.count)])
        ELSE [acc EXCEPT !.s.split_buffers =
                             MapPut(bufs, id, [buf EXCEPT !.received = received])]

\* step 2, "If split"
PlaceSplit(acc, f) ==
    LET bufs == acc.s.split_buffers
        id == f.split.id
        known == id \in DOMAIN bufs
        buf == IF known THEN bufs[id]
               ELSE [count |-> f.split.count, received |-> EmptyMap]
        received == MapPut(buf.received, f.split.index, f.payload)
    IN  IF (~known /\ Cardinality(DOMAIN bufs) >= MaxSplitBuffers)
           \/ buf.count # f.split.count
           \/ f.split.index \notin 0 .. (buf.count - 1)
        THEN acc
        ELSE IF DOMAIN received = 0 .. (buf.count - 1)
        THEN Deliver([acc EXCEPT !.s.split_buffers = MapDel(bufs, {id})],
                     [f EXCEPT !.split = NoSplit,
                               !.payload = ConcatFragments(received, 0, buf.count)])
        ELSE [acc EXCEPT !.s.split_buffers =
                             MapPut(bufs, id, [buf EXCEPT !.received = received])]

ProcessFrame(acc, f) ==
    IF f.split # NoSplit THEN PlaceSplit(acc, f) ELSE Deliver(acc, f)

RECURSIVE ProcessFrames(_, _)
ProcessFrames(acc, frames) ==
    IF frames = <<>> THEN acc
    ELSE ProcessFrames(ProcessFrame(acc, Head(frames)), Tail(frames))

\* step 1 and step 2: Session.frame_received(packet_sequence_num, frames)
FrameReceived(s, seq, frames) ==
    LET expected == s.expected_recv_seq_num
    IN  IF seq < expected
        THEN [s |-> [s EXCEPT !.ack_queue = @ \cup {seq}], up |-> <<>>]
        ELSE ProcessFrames(
                 [s |-> [s EXCEPT !.ack_queue = @ \cup {seq},
                                  !.nack_queue = @ \cup (expected .. (seq - 1)),
                                  !.expected_recv_seq_num = seq + 1],
                  up |-> <<>>],
                 frames)


(***************************************************************************)
(* Session send path (spec.md 4.C "Send path").                            *)
(***************************************************************************)
\* bytes of a frame that are not payload, in the units the model's MTUs use
EnvelopeOverhead == 1
\* ticks after which a retransmit_queue entry is due (200 ms at 10 Hz)
RetransmitTicks == 2

\* The reliability descriptor (reliable, channel) of the upper layer; channel -1
\* stands for "no channel".
Reliability(reliable, channel) == [reliable |-> reliable, channel |-> channel]
ModeOf(reliability) ==
    IF ~reliability.reliable THEN UNRELIABLE
    ELSE IF reliability.channel \in Channels THEN RELIABLE_ORDERED
    ELSE RELIABLE

RECURSIVE Chunks(_, _)
Chunks(payload, cap) ==
    IF Len(payload) <= cap THEN <<payload>>
    ELSE <<SubSeq(payload, 1, cap)>>
             \o Chunks(SubSeq(payload, cap + 1, Len(payload)), cap)

\* step 2: one frame per fragment; the reliable index is per frame, the order
\* index is the payload's and is shared by its fragments
RECURSIVE MakeFrames(_, _, _, _, _, _)
MakeFrames(chunks, i, rel, ridx, oidx, chan) ==
    IF i > Len(chunks) THEN <<>>
    ELSE <<Frame(rel,
                 IF IsReliable(rel) THEN ridx + (i - 1) ELSE -1,
                 -1,
                 IF IsOrdered(rel) THEN oidx ELSE -1,
                 IF IsOrdered(rel) THEN chan ELSE -1,
                 NoSplit,
                 chunks[i])>>
             \o MakeFrames(chunks, i + 1, rel, ridx, oidx, chan)

WithSplit(frames, id) ==
    [i \in 1 .. Len(frames) |->
        [frames[i] EXCEPT !.split = [count |-> Len(frames), id |-> id, index |-> i - 1]]]

\* steps 1 and 2: Session.send_frame(payload, reliability)
SendFrame(s, payload, reliability) ==
    LET rel == ModeOf(reliability)
        chan == reliability.channel
        chunks == Chunks(payload, s.mtu - EnvelopeOverhead)
        n == Len(chunks)
        plain == MakeFrames(chunks, 1, rel, s.send_reliable_index,
                            IF IsOrdered(rel) THEN s.send_order_index[chan] ELSE -1,
                            chan)
        frames == IF n > 1 THEN WithSplit(plain, s.next_split_id) ELSE plain
    IN  [s EXCEPT !.pending = @ \o frames,
                  !.send_reliable_index = IF IsReliable(rel) THEN @ + n ELSE @,
                  !.send_order_index =
                      IF IsOrdered(rel) THEN [@ EXCEPT ![chan] = @ + 1] ELSE @,
                  !.next_split_id = IF n > 1 THEN @ + 1 ELSE @]

FrameSize(f) == Len(f.payload) + EnvelopeOverhead

\* the longest prefix of the pending frames that fits one frame set (at least
\* one frame)
RECURSIVE TakeFitting(_, _, _)
TakeFitting(frames, room, taken) ==
    IF frames = <<>> THEN taken
    ELSE IF taken # <<>> /\ FrameSize(Head(frames)) > room THEN taken
    ELSE TakeFitting(Tail(frames), room - FrameSize(Head(frames)),
                     Append(taken, Head(frames)))

\* step 3: pending frames packed into frame sets of <= mtu, in order
RECURSIVE PackFrameSets(_, _)
PackFrameSets(frames, mtu) ==
    Only({IF fs = <<>> THEN <<>>
          ELSE Only({<<first>> \o PackFrameSets(SubSeq(fs, Len(first) + 1, Len(fs)), mtu) :
                        first \in {TakeFitting(fs, mtu, <<>>)}}) :
             fs \in {frames}})

ReliableFrames(frames) == SelectSeq(frames, LAMBDA f : IsReliable(f.rel))

\* the datagrams of a session
FrameSetPacket(seq, frames) == [type |-> "FRAME_SET", seq |-> seq, frames |-> frames]
AckPacket(seqs) == [type |-> "ACK", seqs |-> seqs]
NckPacket(seqs) == [type |-> "NCK", seqs |-> seqs]

\* the keys of a map in increasing order
SortedKeys(K) ==
    [i \in 1 .. Cardinality(K) |->
        CHOOSE k \in K : Cardinality({j \in K : j < k}) = i - 1]

\* the frames of the entries keys[i], keys[i+1], ... one after the other
RECURSIVE EntryFrames(_, _, _)
EntryFrames(queue, keys, i) ==
    IF i > Len(keys) THEN <<>>
    ELSE queue[keys[i]].frames \o EntryFrames(queue, keys, i + 1)

\* the frames of the listed retransmit_queue entries, appended to the pending
\* frames; an entry stays until it is ACKed and its send time starts anew
RequeueEntries(s, keys) ==
    [s EXCEPT !.pending = @ \o EntryFrames(s.retransmit_queue, keys, 1),
              !.retransmit_queue =
                  [k \in DOMAIN @ |->
                      IF \E i \in 1 .. Len(keys) : keys[i] = k
                      THEN [@[k] EXCEPT !.age = 0] ELSE @[k]]]

\* Session.close(): the timers are cancelled and the queues dropped
Close(s) ==
    [s EXCEPT !.closed = TRUE, !.pending = <<>>, !.retransmit_queue = EmptyMap,
              !.ack_queue = {}, !.nack_queue = {}]

\* a timer that close() does not cancel
TimerNeverCancelled(s) == TRUE

\* the session's update timer runs from construction until close() cancels it
TimerAlive(s) == ~s.closed

\* a transmission that records every reliable frame set, however many the
\* queue holds
TransmitFrameSetsUncapped(acc, sets) ==
    LET first == acc.s.send_seq_num
        numbered == [i \in 1 .. Len(sets) |-> FrameSetPacket(first + i - 1, sets[i])]
        recorded == {first + i - 1 : i \in {k \in 1 .. Len(sets) :
                                               ReliableFrames(sets[k]) # <<>>}}
    IN  [s |-> [acc.s EXCEPT
                   !.send_seq_num = first + Len(sets),
                   !.retransmit_queue =
                       [k \in DOMAIN @ \cup recorded |->
                           IF k \in recorded
                           THEN [frames |-> ReliableFrames(sets[k - first + 1]),
                                 age |-> 0]
                           ELSE @[k]]],
         out |-> acc.out \o numbered]

\* step 3 for the packed frame sets: number, record, transmit.  The frame
\* sets are taken in order as long as the retransmit_queue stays within the
\* session's cap; a frame set whose entry would exceed the cap is not sent and
\* closes the session ("Retransmit overflow -- close the session").
TransmitFrameSets(acc, sets) ==
    LET first == acc.s.send_seq_num
        queue == acc.s.retransmit_queue
        Recorded(n) == {k \in 1 .. n : ReliableFrames(sets[k]) # <<>>}
        fits == {n \in 0 .. Len(sets) :
                    Cardinality(DOMAIN queue) + Cardinality(Recorded(n))
                        <= acc.s.retransmit_cap}
        taken == IF fits = {} THEN 0 ELSE Cardinality(fits) - 1
        numbered == [i \in 1 .. taken |-> FrameSetPacket(first + i - 1, sets[i])]
        recorded == {first + i - 1 : i \in Recorded(taken)}
        after == [acc.s EXCEPT
                     !.send_seq_num = first + taken,
                     !.retransmit_queue =
                         [k \in DOMAIN @ \cup recorded |->
                             IF k \in recorded
                             THEN [frames |-> ReliableFrames(sets[k - first + 1]),
                                   age |-> 0]
                             ELSE @[k]]]
    IN  [s |-> IF taken < Len(sets) THEN Close(after) ELSE after,
         out |-> acc.out \o numbered]

\* The session's periodic tick: flush ACK and NACK, requeue the entries older
\* than the retransmit timeout, pack and transmit the pending frames.
\* Result: [s |-> session, out |-> datagrams handed to send_to_client].
SessionUpdate(s) ==
    LET acks == IF s.ack_queue # {} THEN <<AckPacket(s.ack_queue)>> ELSE <<>>
        ncks == IF s.nack_queue # {} THEN <<NckPacket(s.nack_queue)>> ELSE <<>>
        Aged == [s EXCEPT !.ack_queue = {}, !.nack_queue = {},
                          !.retransmit_queue =
                              [k \in DOMAIN @ |-> [@[k] EXCEPT !.age = @ + 1]]]
        Due(aged) == {k \in DOMAIN aged.retransmit_queue :
                         aged.retransmit_queue[k].age >= RetransmitTicks}
        Requeued(aged) == RequeueEntries(aged, SortedKeys(Due(aged)))
        Transmitted(requeued) ==
            Only({TransmitFrameSets([s |-> [requeued EXCEPT !.pending = <<>>],
                                     out |-> acks \o ncks],
                                    sets) :
                     sets \in {PackFrameSets(requeued.pending, requeued.mtu)}})
    IN  Only({Only({Transmitted(requeued) : requeued \in {Requeued(aged)}}) :
                 aged \in {Aged}})

\* Session.ack_received(packet): the listed entries leave the retransmit_queue
AckReceived(s, packet) ==
    [s EXCEPT !.retransmit_queue = MapDel(@, packet.seqs)]

\* Session.nck_received(packet): the listed entries' frames are requeued
NckReceived(s, packet) ==
    RequeueEntries(s, SortedKeys(packet.seqs \cap DOMAIN s.retransmit_queue))

(***************************************************************************)
(* The game data handler, as far as the endpoint sees it (spec.md 4.C      *)
(* state machine, "any | DISCONNECTION_NOTIFICATION | CLOSING | drain,     *)
(* then destroy").  Its state is the set of addresses in CLOSING.          *)
(***************************************************************************)
\* the payload of the connection packet DISCONNECTION_NOTIFICATION (0x15)
DISCONNECTION_NOTIFICATION == 21
IsDisconnection(payload) == payload = <<DISCONNECTION_NOTIFICATION>>

\* handler.data_received(data, addr) for every payload a session surfaced
RECURSIVE HandlerDataReceived(_, _, _)
HandlerDataReceived(cl, up, addr) ==
    IF up = <<>> THEN cl
    ELSE HandlerDataReceived(
             IF IsDisconnection(Head(up).payload) THEN cl \cup {addr} ELSE cl,
             Tail(up), addr)

\* handler.update(): a session in CLOSING has been drained and is reported to
\* the endpoint as gone (SessionNotFound(addr)); which one, when there are
\* several, is not determined.  Result for the reported address a.
HandlerUpdateRaises(cl) == cl # {}
HandlerUpdate(cl, a) == cl \ {a}

\* the ways handler.update() ends: it returns, or raises SessionNotFound
\* for an address in CLOSING, or SessionNotFound without an address, or
\* another exception (a failure of the world collaborator)
UpdateOutcomes(cl) ==
    (IF HandlerUpdateRaises(cl)
     THEN {[kind |-> "SessionNotFound", addr |-> a] : a \in cl}
     ELSE {[kind |-> "returns", addr |-> NoAddr]})
    \cup {[kind |-> "SessionNotFound", addr |-> NoAddr],
          [kind |-> "failure", addr |-> NoAddr]}

(***************************************************************************)
(* The protocol endpoint: _RakNetProtocolImpl of raknet/server.py.  Its    *)
(* handlers are operators on the endpoint state                            *)
(*   e = [sessions, closing, delivered, sent, closedSids, nextSid,         *)
(*        detached, raised, escaped]                                       *)
(* where raised tells that SessionNotFound left the handler, and escaped   *)
(* that an exception left the method.  detached holds the Session objects  *)
(* that are no longer in _sessions, by their number.                       *)
(***************************************************************************)
\* the MTU sizes a client may offer, in the model's units
MtuSizes == {3, 4}
SERVER_GUID == 7

\* transport.sendto(data, addr)
SendToClient(e, packet, addr) ==
    [e EXCEPT !.sent = Append(@, [to |-> addr, packet |-> packet])]

RECURSIVE SendAllToClient(_, _, _)
SendAllToClient(e, packets, addr) ==
    IF packets = <<>> THEN e
    ELSE SendAllToClient(SendToClient(e, Head(packets), addr), Tail(packets), addr)

\* _remove_session(addr)
RemoveSession(e, addr) ==
    IF addr \in DOMAIN e.sessions
    THEN [e EXCEPT !.closedSids = @ \cup {e.sessions[addr].sid},
                   !.detached = MapPut(@, e.sessions[addr].sid, Close(e.sessions[addr])),
                   !.sessions = MapDel(@, {addr})]
    ELSE e

\* a lookup that makes the missing session instead of raising
GetSessionOrMake(ss, addr) ==
    [found |-> TRUE,
     sessions |-> IF addr \in DOMAIN ss THEN ss ELSE MapPut(ss, addr, SessionOf(0, 3, addr))]

\* _get_session(addr): the session, or SessionNotFound
GetSession(ss, addr) == [found |-> addr \in DOMAIN ss, sessions |-> ss]

\* self.server_id: the fields of the descriptor, each closed by ';'; the last
\* three are the configured GUID, world name and game mode
SERVER_ID ==
    <<"MCPE", "PyMineHub Server", "160", "1.2.7", "0", "20", SERVER_GUID,
      "PyMineHub", "Survival">>

\* a reply that carries the endpoint's own clock instead of the ping's time
ProcessUnconnectedPingOwnClock(e, packet, addr) ==
    SendToClient(e, [type |-> "UNCONNECTED_PONG", time |-> 0,
                     guid |-> SERVER_GUID, server_id |-> SERVER_ID], addr)

ProcessUnconnectedPing(e, packet, addr) ==
    SendToClient(e, [type |-> "UNCONNECTED_PONG", time |-> packet.time,
                     guid |-> SERVER_GUID, server_id |-> SERVER_ID], addr)

\* a first request that already registers the session
ProcessOpenConnectionRequest1Registers(e, packet, addr) ==
    LET replied == SendToClient(e, [type |-> "OPEN_CONNECTION_REPLY1",
                                    guid |-> SERVER_GUID, mtu |-> packet.mtu], addr)
    IN  [replied EXCEPT !.sessions =
                            MapPut(@, addr, SessionOf(e.nextSid, packet.mtu, addr)),
                        !.nextSid = @ + 1]

ProcessOpenConnectionRequest1(e, packet, addr) ==
    SendToClient(e, [type |-> "OPEN_CONNECTION_REPLY1", guid |-> SERVER_GUID,
                     mtu |-> packet.mtu], addr)

\* a handler whose callbacks all read one variable: the address of the request
\* handled last
ProcessOpenConnectionRequest2SharedAddr(e, packet, addr) ==
    LET replied == SendToClient(e, [type |-> "OPEN_CONNECTION_REPLY2",
                                    guid |-> SERVER_GUID, addr |-> addr,
                                    mtu |-> packet.mtu], addr)
        made == MapPut(e.sessions, addr, SessionOf(e.nextSid, packet.mtu, addr))
    IN  [replied EXCEPT !.sessions = [a \in DOMAIN made |-> [made[a] EXCEPT !.addr = addr]],
                        !.nextSid = @ + 1]

\* the assignment to _sessions[addr] drops the reference to the session that
\* was tracked for addr, if there was one; nothing is called on that session
Assign(e, addr, session) ==
    [e EXCEPT !.detached = IF addr \in DOMAIN e.sessions
                           THEN MapPut(@, e.sessions[addr].sid, e.sessions[addr])
                           ELSE @,
              !.sessions = MapPut(@, addr, session)]

ProcessOpenConnectionRequest2(e, packet, addr) ==
    LET replied == SendToClient(e, [type |-> "OPEN_CONNECTION_REPLY2",
                                    guid |-> SERVER_GUID, addr |-> addr,
                                    mtu |-> packet.mtu], addr)
    IN  [Assign(replied, addr, SessionOf(e.nextSid, packet.mtu, addr))
            EXCEPT !.nextSid = @ + 1]

\* a decoding that stops after the first frame
DecodeFramesFirstOnly(payload) ==
    IF payload = <<>> THEN <<>> ELSE <<Head(payload)>>

\* the decoding loop of _process_frame_set: frames are taken off the payload
\* one after the other, in wire order
RECURSIVE DecodeFrames(_)
DecodeFrames(payload) ==
    IF payload = <<>> THEN <<>>
    ELSE <<Head(payload)>> \o DecodeFrames(Tail(payload))

\* a handler that hands the session the number of frames for the sequence number
ProcessFrameSetWrongNumber(e, packet, addr) ==
    LET got == GetSession(e.sessions, addr)
    IN  IF ~got.found THEN [e EXCEPT !.raised = TRUE]
        ELSE LET r == FrameReceived(got.sessions[addr], Len(packet.frames),
                                    DecodeFrames(packet.frames))
             IN  [e EXCEPT !.sessions = MapPut(got.sessions, addr, r.s),
                           !.delivered = MapPut(@, r.s.addr,
                               (IF r.s.addr \in DOMAIN @ THEN @[r.s.addr] ELSE <<>>)
                                   \o r.up),
                           !.closing = HandlerDataReceived(@, r.up, r.s.addr)]

ProcessFrameSet(e, packet, addr) ==
    LET got == GetSession(e.sessions, addr)
    IN  IF ~got.found THEN [e EXCEPT !.raised = TRUE]
        ELSE LET r == FrameReceived(got.sessions[addr], packet.seq,
                                    DecodeFrames(packet.frames))
             IN  [e EXCEPT !.sessions = MapPut(got.sessions, addr, r.s),
                           !.delivered = MapPut(@, r.s.addr,
                               (IF r.s.addr \in DOMAIN @ THEN @[r.s.addr] ELSE <<>>)
                                   \o r.up),
                           !.closing = HandlerDataReceived(@, r.up, r.s.addr)]

(***************************************************************************)
(* The frame set on the wire.  A FRAME_SET packet of one of the three type *)
(* tags carries its frames as bytes, [type, seq, payload].  The frame      *)
(* codec (raknet_frame_codec) and its context (CompositeCodecContext) are  *)
(* not among the source files; they are modelled from spec.md 4.A and 4.B: *)
(* the context carries a running byte-length accumulator to which every    *)
(* field read adds its width.  Bytes are numbers.                          *)
(***************************************************************************)
BigEndian(n, width) == [i \in 1 .. width |-> (n \div (256 ^ (width - i))) % 256]

RECURSIVE FromBigEndian(_)
FromBigEndian(bytes) ==
    IF bytes = <<>> THEN 0
    ELSE FromBigEndian(SubSeq(bytes, 1, Len(bytes) - 1)) * 256 + bytes[Len(bytes)]

\* bits 7..5 of the flags byte
ReliabilityModes ==
    <<UNRELIABLE, UNRELIABLE_SEQUENCED, RELIABLE, RELIABLE_ORDERED, RELIABLE_SEQUENCED>>
ReliabilityBits(rel) == (CHOOSE i \in DOMAIN ReliabilityModes : ReliabilityModes[i] = rel) - 1

\* the modes that carry an order index and a channel
HasOrderIndex(rel) == rel \in {UNRELIABLE_SEQUENCED, RELIABLE_ORDERED, RELIABLE_SEQUENCED}

\* raknet_frame_codec.encode(frame)
FrameEncode(f) ==
    <<ReliabilityBits(f.rel) * 32 + (IF f.split # NoSplit THEN 16 ELSE 0)>>
        \o BigEndian(8 * Len(f.payload), 2)
        \o (IF IsReliable(f.rel) THEN BigEndian(f.ridx, 3) ELSE <<>>)
        \o (IF IsSequenced(f.rel) THEN BigEndian(f.sidx, 3) ELSE <<>>)
        \o (IF HasOrderIndex(f.rel) THEN BigEndian(f.oidx, 3) \o <<f.chan>> ELSE <<>>)
        \o (IF f.split # NoSplit
            THEN BigEndian(f.split.count, 4) \o BigEndian(f.split.id, 2)
                     \o BigEndian(f.split.index, 4)
            ELSE <<>>)
        \o f.payload

\* frames packed back to back
RECURSIVE EncodeFrames(_)
EncodeFrames(frames) ==
    IF frames = <<>> THEN <<>>
    ELSE FrameEncode(Head(frames)) \o EncodeFrames(Tail(frames))

\* CompositeCodecContext(): the accumulator starts at 0; clear() resets it
NewContext == [length |-> 0]
ContextClear(context) == [context EXCEPT !.length = 0]

\* raknet_frame_codec.decode(data, context): one frame off the head of data;
\* the context's length grows by the bytes read.  Data that end inside the
\* frame, or flags of no reliability mode, raise an exception.
FrameDecode(data, context) ==
    LET flags == data[1]
        bits == flags \div 32
        rel == ReliabilityModes[bits + 1]
        split == (flags \div 16) % 2 = 1
        size == (FromBigEndian(SubSeq(data, 2, 3)) + 7) \div 8
        atSeq == 4 + (IF IsReliable(rel) THEN 3 ELSE 0)
        atOrder == atSeq + (IF IsSequenced(rel) THEN 3 ELSE 0)
        atSplit == atOrder + (IF HasOrderIndex(rel) THEN 4 ELSE 0)
        atPayload == atSplit + (IF split THEN 10 ELSE 0)
        consumed == atPayload - 1 + size
    IN  IF Len(data) < 3 \/ bits >= Len(ReliabilityModes) THEN [raised |-> TRUE]
        ELSE IF Len(data) < consumed THEN [raised |-> TRUE]
        ELSE [raised |-> FALSE,
              frame |->
                  Frame(rel,
                        IF IsReliable(rel)
                        THEN FromBigEndian(SubSeq(data, 4, 6)) ELSE -1,
                        IF IsSequenced(rel)
                        THEN FromBigEndian(SubSeq(data, atSeq, atSeq + 2)) ELSE -1,
                        IF HasOrderIndex(rel)
                        THEN FromBigEndian(SubSeq(data, atOrder, atOrder + 2)) ELSE -1,
                        IF HasOrderIndex(rel) THEN data[atOrder + 3] ELSE -1,
                        IF split
                        THEN [count |-> FromBigEndian(SubSeq(data, atSplit, atSplit + 3)),
                              id |-> FromBigEndian(SubSeq(data, atSplit + 4, atSplit + 5)),
                              index |-> FromBigEndian(SubSeq(data, atSplit + 6,
                                                             atSplit + 9))]
                        ELSE NoSplit,
                        SubSeq(data, atPayload, consumed)),
              context |-> [context EXCEPT !.length = @ + consumed]]

\* a loop that does not clear the context between the frames
RECURSIVE DecodeLoopKeepsContext(_, _, _, _)
DecodeLoopKeepsContext(payload, length, frames, context) ==
    IF length >= Len(payload)
    THEN [raised |-> FALSE, frames |-> frames, length |-> length]
    ELSE LET d == FrameDecode(SubSeq(payload, length + 1, Len(payload)), context)
         IN  IF d.raised THEN [raised |-> TRUE, frames |-> frames, length |-> length]
             ELSE DecodeLoopKeepsContext(payload, length + d.context.length,
                                         Append(frames, d.frame), d.context)

\* the loop of _process_frame_set: while length < len(packet.payload), decode
\* a frame off payload[length:], add context.length to length, clear the
\* context.  Result: the frames, the length at the end, and whether the codec
\* raised.
RECURSIVE DecodeLoop(_, _, _, _)
DecodeLoop(payload, length, frames, context) ==
    IF length >= Len(payload)
    THEN [raised |-> FALSE, frames |-> frames, length |-> length]
    ELSE LET d == FrameDecode(SubSeq(payload, length + 1, Len(payload)), context)
         IN  IF d.raised THEN [raised |-> TRUE, frames |-> frames, length |-> length]
             ELSE DecodeLoop(payload, length + d.context.length,
                             Append(frames, d.frame), ContextClear(d.context))

\* _process_frame_set(packet, addr) for a packet as it is on the wire: the
\* session is looked up, the frames are decoded, and the session is handed
\* all of them in one call; an exception of the codec leaves the method
ProcessFrameSetWire(e, packet, addr) ==
    LET got == GetSession(e.sessions, addr)
        loop == DecodeLoop(packet.payload, 0, <<>>, NewContext)
    IN  IF ~got.found THEN [e EXCEPT !.raised = TRUE]
        ELSE IF loop.raised THEN [e EXCEPT !.escaped = TRUE]
        ELSE LET r == FrameReceived(got.sessions[addr], packet.seq, loop.frames)
             IN  [e EXCEPT !.sessions = MapPut(got.sessions, addr, r.s),
                           !.delivered = MapPut(@, r.s.addr,
                               (IF r.s.addr \in DOMAIN @ THEN @[r.s.addr] ELSE <<>>)
                                   \o r.up),
                           !.closing = HandlerDataReceived(@, r.up, r.s.addr)]

\* a NACK handler that treats the datagram as an ACK
ProcessNckAsAck(e, packet, addr) ==
    LET got == GetSession(e.sessions, addr)
    IN  IF ~got.found THEN [e EXCEPT !.raised = TRUE]
        ELSE [e EXCEPT !.sessions =
                  MapPut(got.sessions, addr, AckReceived(got.sessions[addr], packet))]

ProcessNck(e, packet, addr) ==
    LET got == GetSession(e.sessions, addr)
    IN  IF ~got.found THEN [e EXCEPT !.raised = TRUE]
        ELSE [e EXCEPT !.sessions =
                  MapPut(got.sessions, addr, NckReceived(got.sessions[addr], packet))]

\* an ACK handler that takes the largest listed number as cumulative
ProcessAckCumulative(e, packet, addr) ==
    LET got == GetSession(e.sessions, addr)
        upTo == {k \in DOMAIN got.sessions[addr].retransmit_queue :
                    \E n \in packet.seqs : k <= n}
    IN  IF ~got.found THEN [e EXCEPT !.raised = TRUE]
        ELSE [e EXCEPT !.sessions =
                  MapPut(got.sessions, addr,
                         AckReceived(got.sessions[addr], [packet EXCEPT !.seqs = upTo]))]

ProcessAck(e, packet, addr) ==
    LET got == GetSession(e.sessions, addr)
    IN  IF ~got.found THEN [e EXCEPT !.raised = TRUE]
        ELSE [e EXCEPT !.sessions =
                  MapPut(got.sessions, addr, AckReceived(got.sessions[addr], packet))]

\* getattr(self, '_process_' + packet.type.name.lower())(packet, addr)
Dispatch(e, packet, addr) ==
    CASE packet.type = "UNCONNECTED_PING" -> ProcessUnconnectedPing(e, packet, addr)
      [] packet.type = "OPEN_CONNECTION_REQUEST1" ->
             ProcessOpenConnectionRequest1(e, packet, addr)
      [] packet.type = "OPEN_CONNECTION_REQUEST2" ->
             ProcessOpenConnectionRequest2(e, packet, addr)
      [] packet.type = "FRAME_SET" -> ProcessFrameSet(e, packet, addr)
      \* _process_frame_set_4, _8 and _c each forward to _process_frame_set
      [] packet.type \in {"FRAME_SET_4", "FRAME_SET_8", "FRAME_SET_C"} ->
             ProcessFrameSetWire(e, packet, addr)
      [] packet.type = "NCK" -> ProcessNck(e, packet, addr)
      [] packet.type = "ACK" -> ProcessAck(e, packet, addr)
      \* no method of that name: AttributeError
      [] OTHER -> [e EXCEPT !.escaped = TRUE]

\* raknet_packet_codec.decode(data) raises on bytes that are no RakNet packet
Malformed == [type |-> "MALFORMED"]
Decodes(packet) == packet # Malformed

\* datagram_received(data, addr): the datagram is decoded outside the try
\* block; of what the handler raises, SessionNotFound is caught and the
\* session of addr is removed
\* except SessionNotFound: self._remove_session(addr), with the address of
\* the datagram
CatchSessionNotFound(r, addr) ==
    IF r.raised THEN RemoveSession([r EXCEPT !.raised = FALSE], addr) ELSE r

DatagramReceived(e, packet, addr) ==
    IF ~Decodes(packet) THEN [e EXCEPT !.escaped = TRUE]
    ELSE CatchSessionNotFound(Dispatch(e, packet, addr), addr)

\* an update round that swallows SessionNotFound without removing the session
NextMomentKeeps(e, u) ==
    CASE u.kind = "SessionNotFound" /\ u.addr # NoAddr ->
             [e EXCEPT !.closing = HandlerUpdate(@, u.addr)]
      [] u.kind = "failure" -> [e EXCEPT !.escaped = TRUE]
      [] OTHER -> e

\* _next_moment(): handler.update() with outcome u; SessionNotFound is
\* caught, and with an address removes that address's session; any other
\* exception leaves the method
NextMoment(e, u) ==
    CASE u.kind = "SessionNotFound" /\ u.addr # NoAddr ->
             RemoveSession([e EXCEPT !.closing = HandlerUpdate(@, u.addr)], u.addr)
      [] u.kind = "failure" -> [e EXCEPT !.escaped = TRUE]
      [] OTHER -> e

\* loop_to_update(): while True: await self._next_moment(); an exception
\* that leaves _next_moment ends the task
LoopToUpdate(t, r) == IF r.escaped THEN "failed" ELSE t

\* handler.terminate(), as far as the endpoint sees it: the handler hands the
\* endpoint nothing and touches no session
HandlerTerminate(e) == e

\* self._update_task.cancel(): a task that has ended stays as it ended
UpdateTaskCancel(t) == IF t = "running" THEN "cancelled" ELSE t

\* the loop of terminate(): session.close() for every session of _sessions;
\* the sessions stay in the dictionary
CloseSessions(e) ==
    [e EXCEPT !.closedSids = @ \cup {e.sessions[a].sid : a \in DOMAIN e.sessions},
              !.sessions = [a \in DOMAIN @ |-> Close(@[a])]]

\* _RakNetProtocolImpl.terminate()
ProtocolTerminate(e) == CloseSessions(e)

\* the finally block of run(): handler.terminate(), then protocol.terminate()
RunFinally(e) == ProtocolTerminate(HandlerTerminate(e))

\* game_data_received(data, addr, reliability)
GameDataReceived(e, data, addr, reliability) ==
    LET got == GetSession(e.sessions, addr)
    IN  IF ~got.found THEN [e EXCEPT !.raised = TRUE]
        ELSE [e EXCEPT !.sessions =
                  MapPut(got.sessions, addr,
                         SendFrame(got.sessions[addr], data, reliability))]

\* the periodic update of the session of addr; its datagrams leave through
\* the send callback bound at construction, send_to_client(_packet, addr)
SessionTick(e, addr) ==
    Only({SendAllToClient([e EXCEPT !.sessions = MapPut(@, addr, r.s)], r.out,
                          r.s.addr) :
             r \in {SessionUpdate(e.sessions[addr])}})

(***************************************************************************)
(* The batch queue: _BatchQueue and GamePacketQueue of                     *)
(* mcpe/network/queue.py.  A game packet is [id, n]: its type and a number *)
(* that tells it from the other packets.  The packets of a _BatchQueue are *)
(* a sequence of [reliability, packet]; the GamePacketQueue is the         *)
(* sequence of [addr, packets] in the order the defaultdict made them.     *)
(***************************************************************************)
RELIABILITY_CHANEL_DEFAULT == Reliability(TRUE, 0)

\* _BatchQueue._RELIABILITY
RELIABILITY ==
    [t \in {"PLAY_STATUS", "RESOURCE_PACKS_INFO", "RESOURCE_PACK_STACK",
            "START_GAME", "SET_TIME", "UPDATE_ATTRIBUTES", "AVAILABLE_COMMANDS",
            "ADVENTURE_SETTINGS"} |-> RELIABILITY_CHANEL_DEFAULT]

\* last_reliability = None
NoReliability == [reliable |-> FALSE, channel |-> -1]

\* game_packet_codec.encode(packet)
EncodeGamePacket(packet) == [encoded |-> packet]
\* connection_packet_factory.create(ConnectionPacketType.BATCH, payloads)
Batch(payloads) == [type |-> "BATCH", payloads |-> payloads]

\* _BatchQueue.append(packet): KeyError for a type that _RELIABILITY lacks
BatchQueueAppend(packets, packet) ==
    IF packet.id \in DOMAIN RELIABILITY
    THEN [packets |-> Append(packets, [reliability |-> RELIABILITY[packet.id],
                                       packet |-> packet]),
          raised |-> FALSE]
    ELSE [packets |-> packets, raised |-> TRUE]

\* the loop of _BatchQueue.send and the call after it: the calls of sendto
RECURSIVE BatchQueueWalk(_, _, _, _)
BatchQueueWalk(packets, payloads, last_reliability, calls) ==
    IF packets = <<>>
    THEN Append(calls, [batch |-> Batch(payloads), reliability |-> last_reliability])
    ELSE LET entry == Head(packets)
             cut == /\ last_reliability # NoReliability
                    /\ last_reliability # entry.reliability
         IN  BatchQueueWalk(
                 Tail(packets),
                 Append(IF cut THEN <<>> ELSE payloads, EncodeGamePacket(entry.packet)),
                 entry.reliability,
                 IF cut THEN Append(calls, [batch |-> Batch(payloads),
                                            reliability |-> last_reliability])
                 ELSE calls)

\* a flush that puts only the last packet of a group into its batch
BatchQueueSendLastOnly(packets) ==
    IF packets = <<>> THEN BatchQueueWalk(packets, <<>>, NoReliability, <<>>)
    ELSE BatchQueueWalk(<<packets[Len(packets)]>>, <<>>, NoReliability, <<>>)

\* _BatchQueue.send(sendto): the calls of sendto, in order; the list is
\* cleared afterwards
BatchQueueSend(packets) == BatchQueueWalk(packets, <<>>, NoReliability, <<>>)

\* self._batch_queue[addr] of a defaultdict: the entry is made when missing
BatchQueueOf(bq, addr) ==
    IF \E i \in DOMAIN bq : bq[i].addr = addr THEN bq
    ELSE Append(bq, [addr |-> addr, packets |-> <<>>])
IndexOf(bq, addr) == CHOOSE i \in DOMAIN bq : bq[i].addr = addr

\* GamePacketQueue.append(packet, addr)
GamePacketQueueAppend(bq, packet, addr) ==
    LET made == BatchQueueOf(bq, addr)
        i == IndexOf(made, addr)
        r == BatchQueueAppend(made[i].packets, packet)
    IN  [queue |-> [made EXCEPT ![i].packets = r.packets], calls |-> <<>>,
         raised |-> r.raised]

\* the calls of send_connection_packet for the destinations from the i-th on
RECURSIVE SendConnectionPackets(_, _)
SendConnectionPackets(bq, i) ==
    IF i > Len(bq) THEN <<>>
    ELSE LET calls == BatchQueueSend(bq[i].packets)
         IN  [k \in 1 .. Len(calls) |->
                 [to |-> bq[i].addr, batch |-> calls[k].batch,
                  reliability |-> calls[k].reliability]]
             \o SendConnectionPackets(bq, i + 1)

\* a flush that does not clear the lists
GamePacketQueueSendKeeps(bq) ==
    [queue |-> bq, calls |-> SendConnectionPackets(bq, 1), raised |-> FALSE]

\* GamePacketQueue.send(): every destination's _BatchQueue.send, in the order
\* of the dictionary
GamePacketQueueSend(bq) ==
    [queue |-> [i \in DOMAIN bq |-> [bq[i] EXCEPT !.packets = <<>>]],
     calls |-> SendConnectionPackets(bq, 1), raised |-> FALSE]

\* a send_immediately that appends and leaves the flush to a later send
GamePacketQueueSendImmediatelyAppends(bq, packet, addr) ==
    GamePacketQueueAppend(bq, packet, addr)

\* GamePacketQueue.send_immediately(packet, addr)
GamePacketQueueSendImmediately(bq, packet, addr) ==
    LET r == GamePacketQueueAppend(bq, packet, addr)
    IN  IF r.raised THEN r ELSE GamePacketQueueSend(r.queue)

(***************************************************************************)
(* The game session handler: the state machine of one client above its     *)
(* Session.  It answers through the batch queue, one send_immediately     *)
(* for each packet, whose callback hands the batch to game_data_received.  *)
(* The handler state is g = [player, bq, e, world, calls, accepted,        *)
(* raised]: the game session of the client, the batch queue, the endpoint, *)
(* the actions performed, the calls of the callback, the packets the queue *)
(* accepted, and whether an exception left the handler.                    *)
(***************************************************************************)
AWAITING_LOGIN == "AWAITING_LOGIN"
AWAITING_RESOURCE_RESPONSE == "AWAITING_RESOURCE_RESPONSE"
AWAITING_CHUNK_RADIUS == "AWAITING_CHUNK_RADIUS"
SPAWNED == "SPAWNED"

\* no EntityRuntimeID yet (None)
NoId == -1
\* the first value of the server's counter of EntityRuntimeIDs
FirstEntityId == 1

NewGameSession ==
    [state |-> AWAITING_LOGIN, stack_sent |-> FALSE, entity_runtime_id |-> NoId]

\* a game packet of a type, with what tells it from others of the type
Packet(id, n) == [id |-> id, n |-> n]

LOGIN_SUCCESS == 0
PLAYER_SPAWN == 3
MinRadius == 1
MaxRadius == 32
\* the inventory slots of the spawn prelude, in the model
Slots == 2

Clamp(r, lo, hi) == IF r < lo THEN lo ELSE IF r > hi THEN hi ELSE r

\* the chunks within the radius of spawn, along one axis
ChunksWithin(radius) ==
    [i \in 1 .. (2 * radius + 1) |-> Packet("FULL_CHUNK_DATA", i - radius - 1)]

LoginReplies ==
    <<Packet("PLAY_STATUS", LOGIN_SUCCESS), Packet("RESOURCE_PACKS_INFO", 0)>>

\* START_GAME carries the spawn entity runtime id
SpawnPrelude(id) ==
    <<Packet("START_GAME", id), Packet("SET_TIME", 0), Packet("UPDATE_ATTRIBUTES", 0),
      Packet("AVAILABLE_COMMANDS", 0), Packet("ADVENTURE_SETTINGS", 0)>>
        \o [slot \in 1 .. Slots |-> Packet("INVENTORY_CONTENT", slot)]
        \o <<Packet("MOB_EQUIPMENT", 0), Packet("INVENTORY_SLOT", 0),
             Packet("CRAFTING_DATA", 0), Packet("PLAYER_LIST", 0)>>

ChunkReplies(r) ==
    <<Packet("CHUNK_RADIUS_UPDATED", Clamp(r, MinRadius, MaxRadius))>>
        \o ChunksWithin(Clamp(r, MinRadius, MaxRadius))
        \o <<Packet("PLAY_STATUS", PLAYER_SPAWN)>>

Dropped(p) == [replies |-> <<>>, actions |-> <<>>, player |-> p, ids |-> 0]

\* a handler that takes a LOGIN in every state
TransitionAnyLogin(p, packet, next) ==
    IF packet.id = "LOGIN"
    THEN [replies |-> LoginReplies, actions |-> <<>>,
          player |-> [p EXCEPT !.state = AWAITING_RESOURCE_RESPONSE,
                               !.entity_runtime_id = next],
          ids |-> 1]
    ELSE Dropped(p)

\* what the state machine does with a packet in the game session p: the
\* replies, the actions for the collaborator, the game session afterwards and
\* the number of EntityRuntimeIDs taken from the server's counter, which
\* stands at next; a packet the state does not expect is dropped
Transition(p, packet, next) ==
    CASE p.state = AWAITING_LOGIN /\ packet.id = "LOGIN" ->
             [replies |-> LoginReplies, actions |-> <<>>,
              player |-> [p EXCEPT !.state = AWAITING_RESOURCE_RESPONSE,
                                   !.entity_runtime_id = next],
              ids |-> 1]
      [] /\ p.state = AWAITING_RESOURCE_RESPONSE
         /\ packet.id = "RESOURCE_PACK_CLIENT_RESPONSE" ->
             IF ~p.stack_sent
             THEN [replies |-> <<Packet("RESOURCE_PACK_STACK", 0)>>, actions |-> <<>>,
                   player |-> [p EXCEPT !.stack_sent = TRUE], ids |-> 0]
             ELSE [replies |-> SpawnPrelude(p.entity_runtime_id), actions |-> <<>>,
                   player |-> [p EXCEPT !.state = AWAITING_CHUNK_RADIUS], ids |-> 0]
      [] p.state = AWAITING_CHUNK_RADIUS /\ packet.id = "REQUEST_CHUNK_RADIUS" ->
             [replies |-> ChunkReplies(packet.n), actions |-> <<>>,
              player |-> [p EXCEPT !.state = SPAWNED], ids |-> 0]
      [] p.state = SPAWNED /\ packet.id = "MOVE_PLAYER" ->
             [replies |-> <<>>, actions |-> <<[type |-> "Move", n |-> packet.n]>>,
              player |-> p, ids |-> 0]
      [] OTHER -> Dropped(p)

\* the callback of the queue: the batch goes to game_data_received
RECURSIVE SendConnectionPacket(_, _)
SendConnectionPacket(e, cs) ==
    IF cs = <<>> \/ e.raised THEN e
    ELSE SendConnectionPacket(
             GameDataReceived(e, <<Head(cs).batch>>, Head(cs).to, Head(cs).reliability),
             Tail(cs))

\* the calls of a flush that returned: those ahead of the first call for a
\* destination without a session, for which the callback raises
RECURSIVE CallsMade(_, _)
CallsMade(cs, live) ==
    IF cs = <<>> \/ Head(cs).to \notin live THEN <<>>
    ELSE <<Head(cs)>> \o CallsMade(Tail(cs), live)

\* the queue after a flush the callback's exception has left: the exception
\* leaves _BatchQueue.send ahead of its clear() and GamePacketQueue.send
\* ahead of the destinations that follow, so the lists from the raising
\* destination on are as they were (before), the others flushed (after)
KeptOnRaise(before, after, live) ==
    [i \in DOMAIN after |->
        IF \A j \in 1 .. i : after[j].addr \in live THEN after[i] ELSE before[i]]

\* a flush of the queue `before` into the endpoint e0, where r is what the
\* flush does when every call of the callback returns.  Result: the endpoint,
\* the queue, the calls that returned and the address of the SessionNotFound
\* that left the flush, if one did.
FlushThrough(before, r, e0) ==
    LET e == SendConnectionPacket(e0, r.calls)
        live == DOMAIN e0.sessions
        made == CallsMade(r.calls, live)
    IN  [e |-> e,
         queue |-> IF e.raised THEN KeptOnRaise(before, r.queue, live) ELSE r.queue,
         calls |-> made,
         addr |-> IF e.raised THEN r.calls[Len(made) + 1].to ELSE NoAddr]

\* the replies go out one by one; an exception ends the sending
RECURSIVE SendGamePackets(_, _, _)
SendGamePackets(g, packets, addr) ==
    IF packets = <<>> \/ g.raised THEN g
    ELSE LET r == GamePacketQueueSendImmediately(g.bq, Head(packets), addr)
             f == FlushThrough(GamePacketQueueAppend(g.bq, Head(packets), addr).queue,
                               r, g.e)
         IN  SendGamePackets(
                 [g EXCEPT !.bq = f.queue,
                           !.calls = @ \o f.calls,
                           !.e = f.e,
                           !.accepted = IF r.raised THEN @ ELSE Append(@, Head(packets)),
                           !.raised = r.raised \/ f.e.raised],
                 Tail(packets), addr)

\* a handler that leaves the server's counter where it stands
HandlerGamePacketKeepsCounter(g, packet, addr) ==
    LET t == Transition(g.player, packet, g.next_entity_id)
        out == SendGamePackets(g, t.replies, addr)
    IN  IF out.raised THEN out
        ELSE [out EXCEPT !.player = t.player, !.world = @ \o t.actions]

\* the handler takes a game packet of the client at addr: it answers, and
\* when the answers are out performs the actions, moves on and advances the
\* server's counter by the ids taken
HandlerGamePacket(g, packet, addr) ==
    LET t == Transition(g.player, packet, g.next_entity_id)
        out == SendGamePackets(g, t.replies, addr)
    IN  IF out.raised THEN out
        ELSE [out EXCEPT !.player = t.player, !.world = @ \o t.actions,
                         !.next_entity_id = @ + t.ids]

(***************************************************************************)
(* The client library: _MCPEClientHandler of mcpe/network/client.py.  The  *)
(* handler state is                                                        *)
(*   c = [pc, connecting, is_active, processed, request_time,              *)
(*        entity_runtime_id, raised, log]                                  *)
(* where pc is the position of the coroutine start(), the three events are *)
(* asyncio.Event flags, raised tells that the last packet had no _process_ *)
(* method, and log is the set of packets received so far.  A handler's     *)
(* result is [c, out]: the state and the packets sent to the server, in    *)
(* order.                                                                  *)
(***************************************************************************)
COMPLETED == 4
PLAYER_LIST_ADD == 0
NoTime == -1

NewClient ==
    [pc |-> "new", connecting |-> FALSE, is_active |-> FALSE, processed |-> FALSE,
     request_time |-> NoTime, entity_runtime_id |-> NoId, raised |-> FALSE,
     log |-> {}]

ConnectionPacket(type, time) == [type |-> type, time |-> time]

\* start(), up to 'await self._connecting.wait()'
ClientStart(c, now) ==
    [c |-> [c EXCEPT !.request_time = now, !.pc = "connecting"],
     out |-> <<ConnectionPacket("CONNECTION_REQUEST", now)>>]

\* start(), from '_connecting.wait()' to 'await self._is_active.wait()'
ClientLogin(c) ==
    [c |-> [c EXCEPT !.pc = "activating"], out |-> <<Packet("LOGIN", 0)>>]

\* start() returns when _is_active.wait() does
ClientReturn(c) == [c |-> [c EXCEPT !.pc = "returned"], out |-> <<>>]

\* a handler that does not compare the echoed time
ProcessConnectionRequestAcceptedAnyTime(c, packet, now) ==
    [c |-> c,
     out |-> <<ConnectionPacket("NEW_INCOMING_CONNECTION", now),
               ConnectionPacket("CONNECTED_PING", now)>>]

\* _process_connection_request_accepted: NEW_INCOMING_CONNECTION, then
\* send_ping
ProcessConnectionRequestAccepted(c, packet, now) ==
    IF packet.time # c.request_time THEN [c |-> c, out |-> <<>>]
    ELSE [c |-> c,
          out |-> <<ConnectionPacket("NEW_INCOMING_CONNECTION", now),
                    ConnectionPacket("CONNECTED_PING", now)>>]

\* update_status(addr, is_connecting)
UpdateStatus(c, is_connecting) ==
    IF is_connecting THEN [c EXCEPT !.connecting = TRUE] ELSE c

ProcessResourcePacksInfo(c, packet) ==
    [c |-> c, out |-> <<Packet("RESOURCE_PACK_CLIENT_RESPONSE", COMPLETED)>>]

ProcessPlayStatus(c, packet) ==
    IF packet.n = LOGIN_SUCCESS THEN [c |-> c, out |-> <<>>]
    ELSE IF packet.n = PLAYER_SPAWN
         THEN [c |-> [c EXCEPT !.is_active = TRUE], out |-> <<>>]
         ELSE [c |-> c, out |-> <<>>]

ProcessStartGame(c, packet) ==
    [c |-> [c EXCEPT !.entity_runtime_id = packet.n], out |-> <<>>]

ProcessPlayerList(c, packet) ==
    IF packet.n = PLAYER_LIST_ADD /\ ~c.is_active
    THEN [c |-> c, out |-> <<Packet("REQUEST_CHUNK_RADIUS", 8)>>]
    ELSE [c |-> c, out |-> <<>>]

\* the game packet types with a _process_ method that does nothing here
ClientPasses ==
    {"SET_TIME", "UPDATE_ATTRIBUTES", "SET_ENTITY_DATA", "AVAILABLE_COMMANDS",
     "ADVENTURE_SETTINGS", "INVENTORY_CONTENT", "MOB_EQUIPMENT", "INVENTORY_SLOT",
     "CRAFTING_DATA", "CHUNK_RADIUS_UPDATED", "FULL_CHUNK_DATA"}

\* a connection packet has a type, a game packet an id
IsConnectionPacket(packet) == "type" \in DOMAIN packet

\* the dispatch of the base handler by packet name; the connection packets
\* CONNECTED_PING and CONNECTED_PONG are the base handler's own: a ping is
\* answered, a pong confirms the connection.  A packet without a _process_
\* method is not answered.
ClientDispatch(c, packet, now) ==
    IF IsConnectionPacket(packet)
    THEN CASE packet.type = "CONNECTION_REQUEST_ACCEPTED" ->
                  ProcessConnectionRequestAccepted(c, packet, now)
           [] packet.type = "CONNECTED_PING" ->
                  [c |-> c, out |-> <<ConnectionPacket("CONNECTED_PONG", packet.time)>>]
           [] packet.type = "CONNECTED_PONG" ->
                  [c |-> UpdateStatus(c, TRUE), out |-> <<>>]
           [] OTHER -> [c |-> [c EXCEPT !.raised = TRUE], out |-> <<>>]
    ELSE CASE packet.id = "RESOURCE_PACKS_INFO" -> ProcessResourcePacksInfo(c, packet)
           [] packet.id = "PLAY_STATUS" -> ProcessPlayStatus(c, packet)
           [] packet.id = "START_GAME" -> ProcessStartGame(c, packet)
           [] packet.id = "PLAYER_LIST" -> ProcessPlayerList(c, packet)
           [] packet.id \in ClientPasses -> [c |-> c, out |-> <<>>]
           [] OTHER -> [c |-> [c EXCEPT !.raised = TRUE], out |-> <<>>]

\* data_received(data, addr): the base handler's dispatch, then
\* self._processed.set()
ClientDataReceived(c, packet, now) ==
    LET r == ClientDispatch([c EXCEPT !.raised = FALSE, !.log = @ \cup {packet}],
                            packet, now)
    IN  IF r.c.raised THEN r ELSE [r EXCEPT !.c.processed = TRUE]

(***************************************************************************)
(* MCPEClient.wait_response(timeout): the task of the handler's            *)
(* wait_response, the task of _timeout when timeout > 0, and the gather of *)
(* both run to completion.  The call is                                    *)
(*   w = [wait, timer, must_cancel, ready, timeout, signalled, returned,   *)
(*        calls, received, satisfied]                                      *)
(* wait: the task of wait_response ("waiting" at _processed.wait(),        *)
(* "woken" when the event has been set and the task has not run yet,       *)
(* "cancelling" when its cancellation has been sent, "done", "cancelled"); *)
(* timer: the task of _timeout ("sleeping", "expired" when the sleep has   *)
(* ended and the task has not run yet, "done"); ready: the tasks the event *)
(* loop will run next, in order.  The other fields record the call:        *)
(* whether a packet came before the timer expired, what was returned, and  *)
(* the numbers of calls, of packets received and of calls answered True.   *)
(***************************************************************************)
NewWaiter ==
    [wait |-> "idle", timer |-> "none", must_cancel |-> FALSE, ready |-> <<>>,
     timeout |-> 0, signalled |-> FALSE, returned |-> "none",
     calls |-> 0, received |-> 0, satisfied |-> 0]

\* a wait_response that leaves the event set
HandlerWaitResponseKeeps(c) == c

\* _MCPEClientHandler.wait_response(), after _processed.wait() has returned:
\* self._processed.clear()
HandlerWaitResponse(c) == [c EXCEPT !.processed = FALSE]

\* wait_response(timeout) up to run_until_complete: both tasks take their
\* first step; _processed.wait() returns at once when the event is set
WaitResponseCall(w, c, timeout) ==
    [w |-> [w EXCEPT !.wait = IF c.processed THEN "done" ELSE "waiting",
                     !.timer = IF timeout > 0 THEN "sleeping" ELSE "none",
                     !.must_cancel = FALSE,
                     !.timeout = timeout,
                     !.signalled = c.processed,
                     !.returned = "none",
                     !.calls = @ + 1],
     c |-> IF c.processed THEN HandlerWaitResponse(c) ELSE c]

\* asyncio.Event.set(): the waiting task is scheduled
EventSet(w) ==
    IF w.wait = "waiting"
    THEN [w EXCEPT !.wait = "woken", !.ready = Append(@, "wait")]
    ELSE w

\* asyncio.Task.cancel() of the waiting task: its wait is cancelled, or, when
\* the wait has ended and the task has not run yet, the cancellation is kept
\* for its next step; a task that has ended is left alone
TaskCancel(w) ==
    CASE w.wait = "waiting" ->
             [w EXCEPT !.wait = "cancelling", !.ready = Append(@, "wait")]
      [] w.wait = "woken" -> [w EXCEPT !.must_cancel = TRUE]
      [] OTHER -> w

\* the next step of the task of wait_response
WaitTaskStep(w, c) ==
    IF w.wait = "woken" /\ ~w.must_cancel
    THEN [w |-> [w EXCEPT !.wait = "done"], c |-> HandlerWaitResponse(c)]
    ELSE [w |-> [w EXCEPT !.wait = "cancelled", !.must_cancel = FALSE], c |-> c]

\* _timeout(future, time) after the sleep: future.cancel()
TimeoutTaskStep(w, c) == [w |-> [TaskCancel(w) EXCEPT !.timer = "done"], c |-> c]

\* the event loop runs the first of the ready tasks
RunReadyTask(w, c) ==
    LET rest == [w EXCEPT !.ready = Tail(@)]
    IN  IF Head(w.ready) = "wait" THEN WaitTaskStep(rest, c)
        ELSE TimeoutTaskStep(rest, c)

\* asyncio.gather(*futures) is done: both tasks have ended, or the task of
\* wait_response is cancelled
GatherDone(w) ==
    \/ w.wait = "cancelled"
    \/ w.wait = "done" /\ w.timer \in {"none", "done"}

\* wait_response returns: True, or False on CancelledError
WaitResponseReturn(w) ==
    [w EXCEPT !.returned = IF w.wait = "done" THEN "True" ELSE "False",
              !.satisfied = IF w.wait = "done" THEN @ + 1 ELSE @,
              !.wait = "idle", !.timer = "none"]

(***************************************************************************)
(* A server that follows the session and game session state machines of    *)
(* spec.md 4.C and 4.F, as the client sees it: sv = [confirmed, pings] is  *)
(* its side of the connection, p the game session of the client.           *)
(***************************************************************************)
NewRemote == [confirmed |-> FALSE, pings |-> 0]

ServerReceive(sv, p, next, packet) ==
    IF IsConnectionPacket(packet)
    THEN CASE packet.type = "CONNECTION_REQUEST" ->
                  [sv |-> sv, player |-> p, next |-> next,
                   out |-> <<ConnectionPacket("CONNECTION_REQUEST_ACCEPTED", packet.time)>>]
           [] packet.type = "NEW_INCOMING_CONNECTION" ->
                  [sv |-> [sv EXCEPT !.confirmed = TRUE], player |-> p, next |-> next, out |-> <<>>]
           [] packet.type = "CONNECTED_PING" ->
                  [sv |-> sv, player |-> p, next |-> next,
                   out |-> <<ConnectionPacket("CONNECTED_PONG", packet.time)>>]
           [] OTHER -> [sv |-> sv, player |-> p, next |-> next, out |-> <<>>]
    ELSE LET t == Transition(p, packet, next)
         IN  [sv |-> sv, player |-> t.player, next |-> next + t.ids,
              out |-> t.replies]

(***************************************************************************)
(* The codec of the BATCH payload: _CompressedPacketList of                *)
(* mcpe/network/codec/connection.py.  Bytes are numbers, a byte string is  *)
(* a sequence of bytes.                                                    *)
(***************************************************************************)
\* VAR_INT_DATA: seven bits a byte, the low bits first, bit 7 set on every
\* byte but the last
RECURSIVE VarIntWrite(_)
VarIntWrite(n) ==
    IF n < 128 THEN <<n>> ELSE <<(n % 128) + 128>> \o VarIntWrite(n \div 128)

\* the value read and the number of bytes it took
RECURSIVE VarIntRead(_)
VarIntRead(buf) ==
    IF Head(buf) < 128 THEN [value |-> Head(buf), used |-> 1]
    ELSE LET r == VarIntRead(Tail(buf))
         IN  [value |-> (Head(buf) - 128) + 128 * r.value, used |-> r.used + 1]

\* zlib: a stream is the header (0x78 and the level), the deflated body and a
\* checksum of the plain bytes.  Level 0 stores the bytes behind their number;
\* a higher level is modelled by run lengths: (count, byte) for each run.
ZlibHeader == 120
Checksum(bytes) == IF bytes = <<>> THEN 1 ELSE (1 + bytes[1] + Len(bytes)) % 251

RECURSIVE RunLengths(_)
RunLengths(bytes) ==
    IF bytes = <<>> THEN <<>>
    ELSE LET run == CHOOSE k \in 1 .. Len(bytes) :
                        /\ \A i \in 1 .. k : bytes[i] = bytes[1]
                        /\ k = Len(bytes) \/ bytes[k + 1] # bytes[1]
         IN  <<run, bytes[1]>> \o RunLengths(SubSeq(bytes, run + 1, Len(bytes)))

RECURSIVE Expand(_)
Expand(body) ==
    IF body = <<>> THEN <<>>
    ELSE [i \in 1 .. body[1] |-> body[2]] \o Expand(SubSeq(body, 3, Len(body)))

\* zlib.compress(payload, level)
ZlibCompress(payload, level) ==
    <<ZlibHeader, level>>
        \o (IF level = 0 THEN <<Len(payload)>> \o payload ELSE RunLengths(payload))
        \o <<Checksum(payload)>>

\* zlib.decompress(data)
ZlibDecompress(data) ==
    LET body == SubSeq(data, 3, Len(data) - 1)
    IN  IF data[2] = 0 THEN Tail(body) ELSE Expand(body)

COMPRESS_LEVEL == 7

\* _does_compress(payload) for the configured BATCH_COMPRESS_THRESHOLD
DoesCompress(payload, threshold) == Len(payload) >= threshold

\* the loop of write: each record behind the varint of its length
RECURSIVE WriteRecords(_)
WriteRecords(value) ==
    IF value = <<>> THEN <<>>
    ELSE VarIntWrite(Len(Head(value))) \o Head(value) \o WriteRecords(Tail(value))

\* _CompressedPacketList.write(data, value, context): the buffer and the
\* context length afterwards
CompressedPacketListWrite(data, value, length, threshold) ==
    LET payload == WriteRecords(value)
        compressed_data ==
            ZlibCompress(payload,
                         IF DoesCompress(payload, threshold) THEN COMPRESS_LEVEL ELSE 0)
    IN  [data |-> data \o compressed_data, length |-> length + Len(compressed_data)]

\* the loop of read: a varint, then pop_first(payload, length)
RECURSIVE ReadRecords(_)
ReadRecords(payload) ==
    IF payload = <<>> THEN <<>>
    ELSE LET v == VarIntRead(payload)
             rest == SubSeq(payload, v.used + 1, Len(payload))
         IN  <<SubSeq(rest, 1, v.value)>>
                 \o ReadRecords(SubSeq(rest, v.value + 1, Len(rest)))

\* a read that leaves out the records without bytes
CompressedPacketListReadSkipsEmpty(data, length) ==
    [value |-> SelectSeq(ReadRecords(ZlibDecompress(data)), LAMBDA d : d # <<>>),
     data |-> <<>>, length |-> length + Len(data)]

\* _CompressedPacketList.read(data, context): the records, the buffer and the
\* context length afterwards
CompressedPacketListRead(data, length) ==
    [value |-> ReadRecords(ZlibDecompress(data)),
     data |-> <<>>, length |-> length + Len(data)]

\* the codec at work on a tuple of records: what was written and read
NoCodec ==
    [stage |-> "none", value |-> <<>>, threshold |-> 0, written |-> <<>>,
     wlength |-> 0, read |-> <<>>, rest |-> <<>>, rlength |-> 0]

(***************************************************************************)
(* State.                                                                  *)
(***************************************************************************)
VARIABLES
    sessions,    \* _RakNetProtocolImpl._sessions: address -> Session
    closing,     \* the handler's addresses in CLOSING
    delivered,   \* address -> the frames its current session surfaced to
                 \* handler.data_received, in order
    sent,        \* what the last step handed to transport.sendto, in order
    closedSids,  \* the sessions close() was called on
    detached,    \* number -> the Session objects no longer in _sessions
    nextSid,     \* the number of sessions constructed so far
    event,       \* the last step: [kind, addr, packet]
    obs,         \* address -> what the remote has sent to the current session
    nrecv,       \* datagrams received so far
    wire,        \* frame sets in flight to the remote peer
    back,        \* ACK and NACK datagrams in flight to the endpoint
    peer,        \* the remote peer's Session
    peerUp,      \* the frames the peer's session surfaced, in order
    lost,        \* datagrams the network dropped so far
    task,        \* the task of the update loop: "running", "failed" or
                 \* "cancelled"
    idle,        \* address -> ticks since the last datagram from it
    batch_queue, \* GamePacketQueue._batch_queue
    calls,       \* the calls of send_connection_packet in the last step
    appended,    \* address -> the packets append has accepted for it, in order
    handed,      \* address -> the encoded packets handed over for it, in order
    player,      \* address -> the game session: [state, stack_sent]
    world,       \* the actions performed on the world collaborator, in order
    next_entity_id,  \* the server's counter of EntityRuntimeIDs
    client,      \* the client library's handler: _MCPEClientHandler
    remote,      \* the server the client talks to: its side of the connection
    toServer,    \* packets of the client in flight to the server, in order
    toClient,    \* packets of the server in flight to the client, in order
    waiter,      \* the call of MCPEClient.wait_response
    codec,       \* the BATCH payload codec at work: [stage, value, ...]
    space,       \* a Space of mcpe/world/space.py, its chunks and its store
    stack        \* a block and the block stacked on it again and again

vars == <<sessions, closing, delivered, sent, closedSids, detached, nextSid, event, obs,
          nrecv, wire, back, peer, peerUp, lost, task, idle, batch_queue,
          calls, appended, handed, player, world, next_entity_id, client, remote,
          toServer,
          toClient, waiter, codec, space, stack>>
linkVars == <<wire, back, peer, peerUp, lost>>
queueVars == <<batch_queue, calls, appended, handed>>
gameVars == <<player, world, next_entity_id>>
blockVars == <<space, stack>>
clientVars == <<client, remote, toServer, toClient, waiter, codec, blockVars>>
appVars == <<task, idle, queueVars, gameVars, clientVars>>

Addrs == {"a1", "a2"}

NoPacket == [type |-> "NONE"]
NoObs == [maxSeen |-> -1, acks |-> {}, ncks |-> {}, accepted |-> {}]

Range(seq) == {seq[i] : i \in 1 .. Len(seq)}
Max(a, b) == IF a >= b THEN a ELSE b

\* what the remote has sent so far, after one more frame set
ObsFrameSet(o, packet) ==
    [maxSeen |-> Max(o.maxSeen, packet.seq),
     acks |-> o.acks \cup {packet.seq},
     ncks |-> o.ncks \cup ((o.maxSeen + 1) .. (packet.seq - 1)),
     accepted |-> IF packet.seq > o.maxSeen
                  THEN o.accepted \cup Range(packet.frames) ELSE o.accepted]

\* the endpoint state before a step
Endpoint ==
    [sessions |-> sessions, closing |-> closing, delivered |-> delivered,
     sent |-> <<>>, closedSids |-> closedSids, nextSid |-> nextSid,
     detached |-> detached, raised |-> FALSE, escaped |-> FALSE]

\* the endpoint state after a step
Install(r) ==
    /\ sessions' = r.sessions
    /\ closing' = r.closing
    /\ delivered' = r.delivered
    /\ sent' = r.sent
    /\ closedSids' = r.closedSids
    /\ detached' = r.detached
    /\ nextSid' = r.nextSid

\* the state after construction, with the codec at cd
\* a Space after __init__: nothing cached, nothing generated, nothing stored
NewSpace ==
    [cache |-> EmptyMap, chunks |-> <<>>, asked |-> <<>>, saved |-> {},
     op |-> [name |-> "init"]]
NoStack == [n |-> -1]

InitAll(cd, st) ==
    /\ sessions = EmptyMap
    /\ closing = {}
    /\ delivered = EmptyMap
    /\ sent = <<>>
    /\ closedSids = {}
    /\ detached = EmptyMap
    /\ nextSid = 0
    /\ event = [kind |-> "init", addr |-> "a1", packet |-> NoPacket]
    /\ obs = [a \in Addrs |-> NoObs]
    /\ nrecv = 0
    /\ wire = {}
    /\ back = {}
    /\ peer = NewSession(0, 0)
    /\ peerUp = <<>>
    /\ lost = 0
    /\ task = "running"
    /\ idle = [a \in Addrs |-> 0]
    /\ batch_queue = <<>>
    /\ calls = <<>>
    /\ appended = [a \in Addrs |-> <<>>]
    /\ handed = [a \in Addrs |-> <<>>]
    /\ player = [a \in Addrs |-> NewGameSession]
    /\ world = <<>>
    /\ next_entity_id = FirstEntityId
    /\ client = NewClient
    /\ remote = NewRemote
    /\ toServer = <<>>
    /\ toClient = <<>>
    /\ waiter = NewWaiter
    /\ codec = cd
    /\ space = NewSpace
    /\ stack = st

InitWith(cd) == InitAll(cd, NoStack)

Init == InitWith(NoCodec)

(***************************************************************************)
(* Steps of the endpoint.                                                  *)
(***************************************************************************)
\* what the event of a step keeps of a frame set: its sequence number
Brief(packet) ==
    IF packet.type = "FRAME_SET" THEN [type |-> "FRAME_SET", seq |-> packet.seq]
    ELSE packet

\* the kind of a step that handled a datagram: "failure" when an exception
\* left datagram_received
DatagramKind(r) == IF r.escaped THEN "failure" ELSE "datagram"

\* a datagram of the given packet arrives from addr
Receive(packet, addr) ==
    \E r \in {DatagramReceived(Endpoint, packet, addr)} :
        /\ Install(r)
        /\ event' = [kind |-> DatagramKind(r), addr |-> addr,
                     packet |-> Brief(packet)]
        /\ nrecv' = nrecv + 1

RecvUnconnectedPing(addr, time) ==
    /\ Receive([type |-> "UNCONNECTED_PING", time |-> time], addr)
    /\ UNCHANGED <<appVars, obs, linkVars>>

RecvOpenConnectionRequest1(addr, mtu) ==
    /\ Receive([type |-> "OPEN_CONNECTION_REQUEST1", mtu |-> mtu], addr)
    /\ UNCHANGED <<appVars, obs, linkVars>>

\* the log of the address starts anew with the new session
RecvOpenConnectionRequest2(addr, mtu) ==
    LET packet == [type |-> "OPEN_CONNECTION_REQUEST2", mtu |-> mtu]
        r == DatagramReceived(Endpoint, packet, addr)
    IN  /\ Install([r EXCEPT !.delivered = MapDel(@, {addr})])
        /\ event' = [kind |-> "datagram", addr |-> addr, packet |-> Brief(packet)]
        /\ nrecv' = nrecv + 1
        /\ obs' = [obs EXCEPT ![addr] = NoObs]
        /\ UNCHANGED <<linkVars, appVars>>

RecvFrameSet(addr, packet) ==
    /\ Receive(packet, addr)
    /\ obs' = IF addr \in DOMAIN sessions
              THEN [obs EXCEPT ![addr] = ObsFrameSet(@, packet)] ELSE obs
    /\ UNCHANGED <<linkVars, appVars>>

RecvAck(addr, seqs) ==
    /\ Receive(AckPacket(seqs), addr)
    /\ UNCHANGED <<appVars, obs, linkVars>>

RecvNck(addr, seqs) ==
    /\ Receive(NckPacket(seqs), addr)
    /\ UNCHANGED <<appVars, obs, linkVars>>

\* a datagram the endpoint has no handler for, or cannot decode
RecvStray(addr, packet) ==
    /\ Receive(packet, addr)
    /\ UNCHANGED <<appVars, obs, linkVars>>

\* the periodic update of the session tracked for addr
Tick(addr) ==
    /\ addr \in DOMAIN sessions
    /\ TimerAlive(sessions[addr])
    /\ Install(SessionTick(Endpoint, addr))
    /\ event' = [kind |-> "tick", addr |-> addr, packet |-> NoPacket]
    /\ obs' = [obs EXCEPT ![addr].acks = {}, ![addr].ncks = {}]
    /\ UNCHANGED <<appVars, nrecv, linkVars>>

\* the kind of a round of the update loop: "moment" when the handler reported
\* an address, "idle" when it returned and the loop waits for the next tick
MomentKind(u) ==
    CASE u.kind = "returns" -> "idle"
      [] u.kind = "failure" -> "failed"
      [] u.kind = "SessionNotFound" /\ u.addr = NoAddr -> "unaddressed"
      [] OTHER -> "moment"

\* one round of the endpoint's update loop, while its task lives
Moment ==
    /\ task = "running"
    /\ \E u \in UpdateOutcomes(closing) :
          \E r \in {NextMoment(Endpoint, u)} :
              /\ Install(r)
              /\ task' = LoopToUpdate(task, r)
              /\ event' = [kind |-> MomentKind(u), addr |-> u.addr,
                           packet |-> NoPacket]
    /\ UNCHANGED <<idle, queueVars, gameVars, clientVars, obs, nrecv, linkVars>>

(***************************************************************************)
(* The receive path of one session fed by a remote sender: the frames the  *)
(* remote has produced reach the endpoint in frame sets, in any order and  *)
(* any number of times.                                                    *)
(***************************************************************************)
OrderedFrame(c, i) ==
    Frame(RELIABLE_ORDERED, c * MaxOrder + i, -1, i, c, NoSplit, <<c * MaxOrder + i>>)
ReliableFrame ==
    Frame(RELIABLE, NumChannels * MaxOrder, -1, -1, -1, NoSplit,
          <<NumChannels * MaxOrder>>)
RecvUniverse ==
    {OrderedFrame(c, i) : c \in Channels, i \in 0 .. (MaxOrder - 1)}
        \cup {ReliableFrame}

RecvFrameSets ==
    {FrameSetPacket(seq, <<f>>) : seq \in 0 .. (MaxSeq - 1), f \in RecvUniverse}
        \cup {FrameSetPacket(seq, <<p[1], p[2]>>) :
                 seq \in 0 .. (MaxSeq - 1),
                 p \in {q \in RecvUniverse \X RecvUniverse : q[1] # q[2]}}

RecvConnect ==
    /\ "a1" \notin DOMAIN sessions
    /\ \E mtu \in MtuSizes : RecvOpenConnectionRequest2("a1", mtu)

RecvData ==
    /\ nrecv < MaxRecv
    /\ \E packet \in RecvFrameSets : RecvFrameSet("a1", packet)

RecvTick == Tick("a1")

NextRecv == RecvConnect \/ RecvData \/ RecvTick

SpecRecv == Init /\ [][NextRecv]_vars

(***************************************************************************)
(* Properties of the receive path.                                         *)
(***************************************************************************)
Tracked(a) == a \in DOMAIN sessions
Delivered(a) == IF a \in DOMAIN delivered THEN delivered[a] ELSE <<>>

\* the frames of channel c the session of a surfaced, in order
DeliveredOn(a, c) ==
    SelectSeq(Delivered(a), LAMBDA f : f.rel = RELIABLE_ORDERED /\ f.chan = c)

\* the order indices of channel c that reached the session of a
AcceptedIndices(a, c) ==
    {f.oidx : f \in {g \in obs[a].accepted :
                        g.rel = RELIABLE_ORDERED /\ g.chan = c /\ g.split = NoSplit}}

\* the first order index of channel c that has not reached the session of a
FirstMissing(a, c) ==
    CHOOSE n \in 0 .. MaxOrder :
        /\ n \notin AcceptedIndices(a, c)
        /\ \A m \in 0 .. (n - 1) : m \in AcceptedIndices(a, c)

\* channel c of the session of a waits for its head: a frame is buffered
\* behind an index that has not arrived
Stalled(a, c) ==
    \E i \in DOMAIN sessions[a].recv_order_buffer[c] :
        i > sessions[a].next_expected[c]

\* C1: on every channel the reliable-ordered frames surface in increasing
\* order index without a gap, whatever order the frame sets arrive in: what
\* has surfaced on a channel is exactly the frames 0 .. k-1, in this order,
\* where k is the first index that has not arrived; every frame that arrived
\* with a larger index is buffered, and no frame stays buffered once its
\* predecessors have surfaced.
C1_OrderedDelivery ==
    \A a \in DOMAIN sessions : \A c \in Channels :
        LET k == FirstMissing(a, c)
            s == sessions[a]
        IN  /\ DeliveredOn(a, c) = [i \in 1 .. k |-> OrderedFrame(c, i - 1)]
            /\ s.next_expected[c] = k
            /\ {i \in DOMAIN s.recv_order_buffer[c] : i > k}
                   = {i \in AcceptedIndices(a, c) : i > k}
            /\ k \notin DOMAIN s.recv_order_buffer[c]

\* a frame waits in the buffer of channel 0 for its predecessor while the
\* other channel has surfaced all its frames
C1_Witness ==
    /\ Tracked("a1")
    /\ Stalled("a1", 0)
    /\ Len(DeliveredOn("a1", 1)) = MaxOrder

\* C2: no reliable message index is surfaced more than once.
C2_NoDuplicateDelivery ==
    \A a \in DOMAIN sessions :
        \A i \in 1 .. Len(Delivered(a)) : \A j \in 1 .. Len(Delivered(a)) :
            (i # j /\ Delivered(a)[i].ridx >= 0)
                => Delivered(a)[i].ridx # Delivered(a)[j].ridx

\* the ACK (NACK) datagrams among what the last step sent to a
OfType(datagrams, a, type) ==
    SelectSeq(datagrams, LAMBDA d : d.to = a /\ d.packet.type = type)
SentOfType(a, type) == OfType(sent, a, type)

\* C4: every sequence number received since the last tick is queued for ACK
\* (also a number below the expected one), the numbers queued for NACK are
\* exactly the numbers skipped by the arrivals, the expected number is the
\* largest received number plus 1, and the tick emits one ACK datagram
\* listing the queued numbers and one NACK datagram if a number was skipped.
C4_AckNack ==
    /\ [](\A a \in DOMAIN sessions :
            /\ sessions[a].ack_queue = obs[a].acks
            /\ sessions[a].nack_queue = obs[a].ncks
            /\ sessions[a].expected_recv_seq_num = obs[a].maxSeen + 1)
    /\ [][event'.kind = "tick" =>
            LET a == event'.addr
            IN  /\ OfType(sent', a, "ACK") =
                       IF obs[a].acks # {}
                       THEN <<[to |-> a, packet |-> AckPacket(obs[a].acks)]>>
                       ELSE <<>>
                /\ OfType(sent', a, "NCK") =
                       IF obs[a].ncks # {}
                       THEN <<[to |-> a, packet |-> NckPacket(obs[a].ncks)]>>
                       ELSE <<>>]_vars

\* a tick has just answered arrivals that skipped a number: one ACK and one
\* NACK datagram left
C4_Witness ==
    /\ event.kind = "tick"
    /\ Len(SentOfType("a1", "ACK")) = 1
    /\ Len(SentOfType("a1", "NCK")) = 1
    /\ obs["a1"].maxSeen = MaxSeq - 1

\* C6: while channel A waits for its head, a frame set that brings the next
\* expected frame of another channel B has that frame surfaced in the same
\* step, and what had surfaced before keeps its place.
C6_ChannelIndependence ==
    [][\A a \in DOMAIN sessions : \A A \in Channels : \A B \in Channels \ {A} :
          (/\ event'.kind = "datagram"
           /\ event'.addr = a
           /\ event'.packet.type = "FRAME_SET"
           /\ a \in DOMAIN sessions'
           /\ Stalled(a, A))
          => /\ \A f \in obs'[a].accepted \ obs[a].accepted :
                    (f.rel = RELIABLE_ORDERED /\ f.chan = B /\ f.split = NoSplit
                     /\ f.oidx = sessions[a].next_expected[B])
                        => /\ f \in Range(Delivered(a)')
                           /\ f \notin Range(Delivered(a))
             /\ Len(Delivered(a)) <= Len(Delivered(a)')
             /\ SubSeq(Delivered(a)', 1, Len(Delivered(a))) = Delivered(a)]_vars

\* channel 0 waits for its head and channel 1 has surfaced a frame since
C6_Witness ==
    /\ Tracked("a1")
    /\ Stalled("a1", 0)
    /\ event.kind = "datagram"
    /\ event.packet.type = "FRAME_SET"
    /\ Len(DeliveredOn("a1", 1)) >= 1
    /\ sessions["a1"].expected_recv_seq_num = MaxSeq

(***************************************************************************)
(* Reassembly: the remote has split one reliable-ordered payload, the      *)
(* first of channel 0, into MaxFrag fragments.  It numbers its frame sets  *)
(* consecutively; a set holds one frame: a fragment, the next ordered      *)
(* frame of the channel or a sequenced frame.  Frames arrive in any order  *)
(* and any number of times; a frame set may arrive once more.              *)
(***************************************************************************)
FragmentPayload(i) == <<30 + i>>
WholePayload == [i \in 1 .. MaxFrag |-> 30 + (i - 1)]
Fragment(i) ==
    Frame(RELIABLE_ORDERED, i, -1, 0, 0,
          [count |-> MaxFrag, id |-> 0, index |-> i], FragmentPayload(i))
AfterSplit ==
    Frame(RELIABLE_ORDERED, MaxFrag, -1, 1, 0, NoSplit, <<MaxFrag>>)
SequencedAfterSplit(i) ==
    Frame(RELIABLE_SEQUENCED, MaxFrag + 1 + i, i, 2 + i, 0, NoSplit,
          <<MaxFrag + 1 + i>>)

SplitUniverse ==
    {Fragment(i) : i \in 0 .. (MaxFrag - 1)} \cup {AfterSplit}
        \cup {SequencedAfterSplit(i) : i \in 0 .. 1}

SplitConnect ==
    /\ "a1" \notin DOMAIN sessions
    /\ \E mtu \in MtuSizes : RecvOpenConnectionRequest2("a1", mtu)

SplitData ==
    /\ nrecv < MaxFrag + MaxRecv
    /\ \E f \in SplitUniverse :
          \E seq \in {obs["a1"].maxSeen, obs["a1"].maxSeen + 1} \cap Nat :
              RecvFrameSet("a1", FrameSetPacket(seq, <<f>>))

SplitTick == Tick("a1")

NextSplit == SplitConnect \/ SplitData \/ SplitTick

SpecSplit == Init /\ [][NextSplit]_vars

\* the split indices of the fragments that reached the session of a
FragmentsAccepted(a) ==
    {f.split.index : f \in {g \in obs[a].accepted : g.split # NoSplit}}

DeliveredPayloads(a) == {f.payload : f \in Range(Delivered(a))}

\* C5: the split payload surfaces only when all its fragments have arrived,
\* in whatever order, and then as the concatenation of the fragments by
\* split index; before that no fragment and no part of the payload surfaces,
\* and once all fragments have arrived the payload has surfaced.
C5_Reassembly ==
    \A a \in DOMAIN sessions :
        /\ \A f \in Range(Delivered(a)) :
              /\ f.split = NoSplit
              /\ \A i \in 0 .. (MaxFrag - 1) : f.payload # FragmentPayload(i)
              /\ (f.rel = RELIABLE_ORDERED /\ f.oidx = 0) => f.payload = WholePayload
        /\ (WholePayload \in DeliveredPayloads(a))
              <=> (FragmentsAccepted(a) = 0 .. (MaxFrag - 1))
        /\ (FragmentsAccepted(a) # 0 .. (MaxFrag - 1))
              => DeliveredOn(a, 0) = <<>>

\* the payload has surfaced whole, and the frame behind it after it
C5_Witness ==
    /\ Tracked("a1")
    /\ DeliveredOn("a1", 0) = <<[Fragment(0) EXCEPT !.split = NoSplit,
                                                    !.payload = WholePayload],
                                AfterSplit>>
       \/ DeliveredOn("a1", 0) = <<[Fragment(MaxFrag - 1) EXCEPT
                                       !.split = NoSplit, !.payload = WholePayload],
                                   AfterSplit>>
    /\ sessions["a1"].split_buffers = EmptyMap

(***************************************************************************)
(* The endpoint among several clients: any datagram from any address, the  *)
(* sessions' ticks and the rounds of the update loop, in any order.        *)
(***************************************************************************)
\* what a client sends in stop(): DISCONNECTION_NOTIFICATION, RELIABLE
DisconnectFrame ==
    Frame(RELIABLE, 0, -1, -1, -1, NoSplit, <<DISCONNECTION_NOTIFICATION>>)

EndpointFrameSets ==
    {FrameSetPacket(seq, <<f>>) :
        seq \in 0 .. (MaxSeq - 1), f \in {DisconnectFrame, OrderedFrame(0, 0)}}

\* the times a ping may carry
PingTimes == {0, 8721}

Ping ==
    /\ nrecv < MaxDatagrams
    /\ \E a \in Addrs : \E t \in PingTimes : RecvUnconnectedPing(a, t)

Request1 ==
    /\ nrecv < MaxDatagrams
    /\ \E a \in Addrs : \E mtu \in MtuSizes : RecvOpenConnectionRequest1(a, mtu)

Request2 ==
    /\ nrecv < MaxDatagrams
    /\ \E a \in Addrs : \E mtu \in MtuSizes : RecvOpenConnectionRequest2(a, mtu)

Frames ==
    /\ nrecv < MaxDatagrams
    /\ \E a \in Addrs : \E packet \in EndpointFrameSets : RecvFrameSet(a, packet)

Ack ==
    /\ nrecv < MaxDatagrams
    /\ \E a \in Addrs : RecvAck(a, {0})

Nck ==
    /\ nrecv < MaxDatagrams
    /\ \E a \in Addrs : RecvNck(a, {0})

\* an UNCONNECTED_PONG, as another server sends it: a RakNet packet the
\* endpoint has no _process_ method for
Pong ==
    [type |-> "UNCONNECTED_PONG", time |-> 0, guid |-> SERVER_GUID,
     server_id |-> SERVER_ID]

\* datagrams that are not part of the protocol towards a server
StrayDatagrams == {Malformed, Pong}

Stray ==
    /\ nrecv < MaxDatagrams
    /\ \E a \in Addrs : \E packet \in StrayDatagrams : RecvStray(a, packet)

Ticks == \E a \in Addrs : Tick(a)

Next ==
    \/ Ping \/ Request1 \/ Request2 \/ Frames \/ Ack \/ Nck \/ Stray
    \/ Ticks \/ Moment

Spec == Init /\ [][Next]_vars

(***************************************************************************)
(* Properties of the endpoint.                                             *)
(***************************************************************************)
IsDatagram(ev, a, types) ==
    ev.kind = "datagram" /\ ev.addr = a /\ ev.packet.type \in types

Reply2(a, mtu) ==
    [to |-> a, packet |-> [type |-> "OPEN_CONNECTION_REPLY2", guid |-> SERVER_GUID,
                           addr |-> a, mtu |-> mtu]]

\* C8: an address becomes tracked only by a step that processes an
\* OPEN_CONNECTION_REQUEST2 from it; that step leaves a fresh session with the
\* MTU of the request and sends OPEN_CONNECTION_REPLY2 echoing that MTU to the
\* address, also when it replaces a session; UNCONNECTED_PING and
\* OPEN_CONNECTION_REQUEST1 leave the tracked sessions as they are.
C8_SessionOnlyByRequest2 ==
    [][\A a \in Addrs :
          /\ (a \notin DOMAIN sessions /\ a \in DOMAIN sessions')
                => IsDatagram(event', a, {"OPEN_CONNECTION_REQUEST2"})
          /\ IsDatagram(event', a, {"OPEN_CONNECTION_REQUEST2"})
                => /\ a \in DOMAIN sessions'
                   /\ sessions'[a] = SessionOf(nextSid, event'.packet.mtu, a)
                   /\ sent' = <<Reply2(a, event'.packet.mtu)>>
                   /\ \A b \in Addrs \ {a} :
                         /\ b \in DOMAIN sessions <=> b \in DOMAIN sessions'
                         /\ b \in DOMAIN sessions => sessions'[b] = sessions[b]
          /\ IsDatagram(event', a, {"UNCONNECTED_PING", "OPEN_CONNECTION_REQUEST1"})
                => /\ sessions' = sessions
                   /\ closedSids' = closedSids]_vars

\* a request replaced the session of a1 with one of the other MTU, beside a
\* session of a2, after a ping and a first request had come from somewhere
C8_Witness ==
    /\ IsDatagram(event, "a1", {"OPEN_CONNECTION_REQUEST2"})
    /\ DOMAIN sessions = {"a1", "a2"}
    /\ sessions["a1"].mtu = 4
    /\ sessions["a1"].sid = 2
    /\ sessions["a2"].mtu = 3
    /\ sent = <<Reply2("a1", 4)>>

UnknownSessionTypes == {"FRAME_SET", "ACK", "NCK"}

\* the datagrams of the endpoint specification that need a session
SessionDatagrams == EndpointFrameSets \cup {AckPacket({0}), NckPacket({0})}

\* C9: a FRAME_SET, ACK or NACK from an address without a session changes
\* nothing: no session appears, none is touched or closed, nothing is surfaced
\* to the handler, nothing is sent; and SessionNotFound does not leave
\* datagram_received.
C9_UnknownSessionDropped ==
    /\ [](\A a \in Addrs \ DOMAIN sessions : \A packet \in SessionDatagrams :
             ~DatagramReceived(Endpoint, packet, a).raised)
    /\ [][\A a \in Addrs \ DOMAIN sessions :
             IsDatagram(event', a, UnknownSessionTypes)
                => /\ sessions' = sessions
                   /\ delivered' = delivered
                   /\ closing' = closing
                   /\ closedSids' = closedSids
                   /\ sent' = <<>>]_vars

\* a frame set came from a2, which has no session, while a1 has one that has
\* surfaced a frame
C9_Witness ==
    /\ IsDatagram(event, "a2", {"FRAME_SET"})
    /\ DOMAIN sessions = {"a1"}
    /\ "a1" \in DOMAIN delivered
    /\ delivered["a1"] # <<>>
    /\ sent = <<>>

\* the addresses whose tracked session has surfaced a DISCONNECTION_NOTIFICATION
Disconnected ==
    {a \in DOMAIN sessions :
        \E i \in 1 .. Len(Delivered(a)) : IsDisconnection(Delivered(a)[i].payload)}

\* C10: the round of the update loop in which the handler reports an address
\* closes and removes that address's session; when the loop comes to rest for
\* the tick no tracked session has surfaced a DISCONNECTION_NOTIFICATION; and
\* while an address is untracked its FRAME_SET, ACK and NACK datagrams leave
\* it untracked and are answered by nothing, until an
\* OPEN_CONNECTION_REQUEST2 from it.
C10_DisconnectRemoves ==
    /\ [](event.kind = "idle" => Disconnected = {})
    /\ [][/\ event'.kind = "moment"
             => /\ event'.addr \notin DOMAIN sessions'
                /\ event'.addr \in DOMAIN sessions
                      => sessions[event'.addr].sid \in closedSids'
          /\ \A a \in Addrs \ DOMAIN sessions :
                /\ a \in DOMAIN sessions'
                      => IsDatagram(event', a, {"OPEN_CONNECTION_REQUEST2"})
                /\ IsDatagram(event', a, UnknownSessionTypes)
                      => a \notin DOMAIN sessions' /\ sent' = <<>>]_vars

\* a1 disconnected, the loop removed its session and came to rest, and a
\* frame set from a1 then found no session
C10_Witness ==
    /\ IsDatagram(event, "a1", {"FRAME_SET"})
    /\ "a1" \notin DOMAIN sessions
    /\ 0 \in closedSids
    /\ closing = {}
    /\ nextSid = 1
    /\ sent = <<>>

\* a server id that starts with 'MCPE;'
StartsWithMCPE(id) == Len(id) >= 1 /\ Head(id) = "MCPE"

\* C12: a step that processes an UNCONNECTED_PING with time t from an address,
\* tracked or not, sends exactly one datagram, to that address: an
\* UNCONNECTED_PONG with the same t, the server GUID and a server id that
\* starts with 'MCPE;'; the sessions, the closed sessions and the number of
\* sessions made stay as they are.
C12_PingPong ==
    [][\A a \in Addrs :
          IsDatagram(event', a, {"UNCONNECTED_PING"})
             => /\ Len(sent') = 1
                /\ sent'[1].to = a
                /\ sent'[1].packet.type = "UNCONNECTED_PONG"
                /\ sent'[1].packet.time = event'.packet.time
                /\ sent'[1].packet.guid = SERVER_GUID
                /\ StartsWithMCPE(sent'[1].packet.server_id)
                /\ sessions' = sessions
                /\ closing' = closing
                /\ closedSids' = closedSids
                /\ nextSid' = nextSid]_vars

\* a ping with time 0 from a1, which has a session, was answered after a ping
\* from a2, which has none
C12_Witness ==
    /\ IsDatagram(event, "a1", {"UNCONNECTED_PING"})
    /\ event.packet.time = 0
    /\ DOMAIN sessions = {"a1"}
    /\ nrecv >= 3
    /\ Len(sent) = 1
    /\ sent[1].packet.type = "UNCONNECTED_PONG"
    /\ sent[1].packet.time = 0

(***************************************************************************)
(* The endpoint with time: each session's update timer counts the ticks    *)
(* since the last datagram from its address.  The timers run for ever; a   *)
(* client may fall silent at any moment.                                   *)
(***************************************************************************)
\* SESSION_INACTIVITY_S in ticks of the update timer
InactivityTicks == 3

IdleConnect ==
    /\ nrecv < MaxDatagrams
    /\ \E a \in Addrs : \E mtu \in MtuSizes :
          /\ Receive([type |-> "OPEN_CONNECTION_REQUEST2", mtu |-> mtu], a)
          /\ idle' = [idle EXCEPT ![a] = 0]
    /\ UNCHANGED <<task, queueVars, gameVars, clientVars, obs, linkVars>>

\* what a connected client sends: data, a disconnection, an ACK
IdleDatagrams ==
    {FrameSetPacket(0, <<OrderedFrame(0, 0)>>), FrameSetPacket(0, <<DisconnectFrame>>),
     AckPacket({0})}

IdleData ==
    /\ nrecv < MaxDatagrams
    /\ \E a \in Addrs : \E packet \in IdleDatagrams :
          /\ Receive(packet, a)
          /\ idle' = [idle EXCEPT ![a] = 0]
    /\ UNCHANGED <<task, queueVars, gameVars, clientVars, obs, linkVars>>

IdleTick ==
    \E a \in DOMAIN sessions :
        /\ TimerAlive(sessions[a])
        /\ \E r \in {SessionTick(Endpoint, a)} : Install(r)
        /\ event' = [kind |-> "tick", addr |-> a, packet |-> NoPacket]
        /\ idle' = [idle EXCEPT ![a] = IF @ < InactivityTicks THEN @ + 1 ELSE @]
        /\ UNCHANGED <<task, queueVars, gameVars, clientVars, obs, nrecv, linkVars>>

NextIdle == IdleConnect \/ IdleData \/ IdleTick \/ Moment

\* the update timers and the update loop run for ever
SpecIdle ==
    /\ Init
    /\ [][NextIdle]_vars
    /\ WF_vars(IdleTick)
    /\ WF_vars(Moment)

\* the session of a has had no datagram for the inactivity timeout
TimedOut(a) == Tracked(a) /\ idle[a] >= InactivityTicks

\* C11: while the update loop lives, a session from whose address no datagram
\* has come for the inactivity timeout is eventually removed from the
\* endpoint, unless a datagram from the address ends the silence; and no tick
\* removes a session whose address has not been silent that long.
C11_InactivityTimeout ==
    /\ \A a \in Addrs : TimedOut(a) ~> (~TimedOut(a) \/ task = "failed")
    /\ [][\A a \in Addrs :
             (Tracked(a) /\ a \notin DOMAIN sessions' /\ ~TimedOut(a))
                => event'.kind # "tick"]_vars

\* C19: no failure escapes datagram_received: every step that handles a
\* datagram ends without an exception leaving the method, and a datagram that
\* cannot be decoded or has no handler is dropped: the sessions stay as they
\* are, none is closed and nothing is sent.
C19_NoFailureEscapes ==
    [][nrecv' # nrecv
          => /\ event'.kind = "datagram"
             /\ event'.packet \in StrayDatagrams
                   => /\ sessions' = sessions
                      /\ closedSids' = closedSids
                      /\ sent' = <<>>]_vars

\* C20: the task of the update loop keeps running: no outcome of a round's
\* handler.update(), a failure of the collaborator or SessionNotFound with or
\* without an address, ends it, so the next round is still executed.
C20_TickTaskKeepsRunning == task = "running"

(***************************************************************************)
(* A sender and a receiver over a lossy network.  The sender is the        *)
(* endpoint's session for a1, fed by game_data_received; the receiver is   *)
(* the remote peer's Session.  The network keeps the order of the frame    *)
(* sets and drops at most MaxLoss datagrams; a tick finds the datagrams of *)
(* the tick before delivered or dropped.  The payloads are enqueued before *)
(* the session's first transmission.                                       *)
(***************************************************************************)
\* frame sets the sender may number; enough for MaxLoss + 1 rounds of
\* transmission, each of which sends again what the rounds before recorded
SeqCap == MaxSend * (MaxLoss + 2)

LinkPayload(k) == <<100 + k>>

Sender == sessions["a1"]
Enqueued == IF Tracked("a1") THEN Sender.send_order_index[0] ELSE 0

LinkConnect ==
    /\ sessions = EmptyMap
    /\ \E mtu \in MtuSizes : RecvOpenConnectionRequest2("a1", mtu)

\* the handler sends the next payload, reliable and ordered on channel 0
LinkSend ==
    /\ Tracked("a1")
    /\ Enqueued < MaxSend
    /\ Sender.send_seq_num = 0
    /\ Install(GameDataReceived(Endpoint, LinkPayload(Enqueued), "a1",
                                Reliability(TRUE, 0)))
    /\ event' = [kind |-> "send", addr |-> "a1", packet |-> NoPacket]
    /\ UNCHANGED <<appVars, obs, nrecv, linkVars>>

Quiet ==
    /\ wire = {}
    /\ back = {}
    /\ peer.ack_queue = {}
    /\ peer.nack_queue = {}

\* the sender's tick; its frame sets enter the network
LinkTick ==
    /\ Tracked("a1")
    /\ TimerAlive(Sender)
    /\ Quiet
    /\ Sender.send_seq_num < SeqCap
    /\ \E r \in {SessionTick(Endpoint, "a1")} :
          /\ Install(r)
          /\ wire' = {d.packet : d \in Range(r.sent)}
    /\ event' = [kind |-> "tick", addr |-> "a1", packet |-> NoPacket]
    /\ UNCHANGED <<appVars, obs, nrecv, back, peer, peerUp, lost>>

\* the oldest frame set in flight reaches the receiver
LinkDeliver ==
    \E packet \in {q \in wire : \A o \in wire : q.seq <= o.seq} :
        LET r == FrameReceived(peer, packet.seq, packet.frames)
        IN  /\ wire' = wire \ {packet}
            /\ peer' = r.s
            /\ peerUp' = peerUp \o r.up
            /\ UNCHANGED <<appVars, sessions, closing, delivered, sent, closedSids, detached,
               nextSid,
                           event, obs, nrecv, back, lost>>

\* the network drops a datagram
LinkLose ==
    /\ lost < MaxLoss
    /\ lost' = lost + 1
    /\ \/ \E packet \in wire : wire' = wire \ {packet} /\ back' = back
       \/ \E packet \in back : back' = back \ {packet} /\ wire' = wire
    /\ UNCHANGED <<appVars, sessions, closing, delivered, sent, closedSids, detached,
               nextSid,
                   event, obs, nrecv, peer, peerUp>>

\* the receiver's tick; its ACK and NACK enter the network
PeerTick ==
    /\ wire = {}
    /\ back = {}
    /\ peer.ack_queue # {} \/ peer.nack_queue # {}
    /\ LET r == SessionUpdate(peer)
       IN  /\ peer' = r.s
           /\ back' = Range(r.out)
    /\ UNCHANGED <<appVars, sessions, closing, delivered, sent, closedSids, detached,
               nextSid,
                   event, obs, nrecv, wire, peerUp, lost>>

\* an ACK reaches the endpoint
LinkAck ==
    \E packet \in back :
        /\ packet.type = "ACK"
        /\ Receive(packet, "a1")
        /\ back' = back \ {packet}
        /\ UNCHANGED <<appVars, obs, wire, peer, peerUp, lost>>

\* a NACK reaches the endpoint
LinkNck ==
    \E packet \in back :
        /\ packet.type = "NCK"
        /\ Receive(packet, "a1")
        /\ back' = back \ {packet}
        /\ UNCHANGED <<appVars, obs, wire, peer, peerUp, lost>>

NextLink ==
    \/ LinkConnect \/ LinkSend \/ LinkTick \/ LinkDeliver \/ LinkLose
    \/ PeerTick \/ LinkAck \/ LinkNck

\* both ticks run for ever, and a datagram in flight that is not dropped arrives
SpecLink ==
    /\ Init
    /\ [][NextLink]_vars
    /\ WF_vars(LinkTick)
    /\ WF_vars(PeerTick)
    /\ WF_vars(LinkDeliver)
    /\ WF_vars(LinkAck)
    /\ WF_vars(LinkNck)

(***************************************************************************)
(* Properties of the link.                                                 *)
(***************************************************************************)
\* the payloads the sender has enqueued, and those the receiver has observed
LinkSent == [k \in 1 .. Enqueued |-> LinkPayload(k - 1)]
PeerPayloads == [i \in 1 .. Len(peerUp) |-> peerUp[i].payload]

\* C3: what the receiver's upper layer has observed is at any time the first
\* payloads the sender enqueued, each once and in the sender's order, and
\* every enqueued payload is eventually observed, although the network drops
\* frame sets, ACKs and NACKs.
C3_ReliableDelivery ==
    /\ [](/\ Len(PeerPayloads) <= Len(LinkSent)
          /\ PeerPayloads = SubSeq(LinkSent, 1, Len(PeerPayloads)))
    /\ \A k \in 1 .. MaxSend : (Enqueued >= k) ~> (Len(peerUp) >= k)

\* all payloads have arrived although the network dropped MaxLoss datagrams
\* and the sender had to transmit again
C3_Witness ==
    /\ lost = MaxLoss
    /\ Enqueued = MaxSend
    /\ PeerPayloads = LinkSent
    /\ Sender.send_seq_num > MaxSend

\* the frame sets among the datagrams of a step
FrameSetsOf(datagrams) ==
    {d.packet : d \in {x \in Range(datagrams) : x.packet.type = "FRAME_SET"}}

\* C7: a transmitted frame set with reliable frames is recorded in the
\* retransmit_queue under its sequence number; an entry leaves the queue only
\* in the step that receives an ACK listing its number, and that step removes
\* the listed entries and no others; a NACK removes nothing and requeues the
\* listed entries' frames; and a tick transmits again the frames of every
\* entry that has reached the retransmit timeout and every requeued frame.
C7_RetransmitUntilAck ==
    [][(Tracked("a1") /\ "a1" \in DOMAIN sessions') =>
          LET rq == Sender.retransmit_queue
              rqn == sessions'["a1"].retransmit_queue
              received == nrecv' # nrecv
              isAck == received /\ IsDatagram(event', "a1", {"ACK"})
              isNck == received /\ IsDatagram(event', "a1", {"NCK"})
              isTick == event'.kind = "tick" /\ sessions' # sessions
              again == UNION {Range(d.frames) : d \in FrameSetsOf(sent')}
          IN  /\ \A k \in DOMAIN rq \cap DOMAIN rqn : rqn[k].frames = rq[k].frames
              /\ isAck => DOMAIN rqn = DOMAIN rq \ event'.packet.seqs
              /\ ~isAck => DOMAIN rq \subseteq DOMAIN rqn
              /\ isNck => /\ DOMAIN rqn = DOMAIN rq
                          /\ \A k \in event'.packet.seqs \cap DOMAIN rq :
                                Range(rq[k].frames)
                                    \subseteq Range(sessions'["a1"].pending)
              /\ isTick =>
                    /\ \A d \in FrameSetsOf(sent') :
                          ReliableFrames(d.frames) # <<>>
                             => /\ d.seq \in DOMAIN rqn
                                /\ rqn[d.seq].frames = ReliableFrames(d.frames)
                    /\ \A k \in DOMAIN rq :
                          rq[k].age + 1 >= RetransmitTicks
                             => Range(rq[k].frames) \subseteq again
                    /\ Range(Sender.pending) \subseteq again]_vars

\* a NACK for frame set 0 has come: its entry is still queued and its frames
\* wait to be transmitted again
C7_Witness ==
    /\ IsDatagram(event, "a1", {"NCK"})
    /\ 0 \in event.packet.seqs
    /\ Tracked("a1")
    /\ 0 \in DOMAIN Sender.retransmit_queue
    /\ Range(Sender.retransmit_queue[0].frames) \subseteq Range(Sender.pending)
    /\ Sender.pending # <<>>

(***************************************************************************)
(* The batch queue under any sequence of append, send and                  *)
(* send_immediately; send_connection_packet returns.                       *)
(***************************************************************************)
MaxAppend == 3

endpointVars == <<sessions, closing, delivered, sent, closedSids, detached, nextSid>>

\* the game packet types the handler may enqueue here
QueueTypes == {"PLAY_STATUS", "START_GAME", "INVENTORY_CONTENT"}

\* the packets accepted so far, which number the next one
Accepted == Len(appended["a1"]) + Len(appended["a2"])
GamePacket(id) == [id |-> id, n |-> Accepted]

\* the encoded packets of the calls for a, batch after batch
RECURSIVE PayloadsTo(_, _)
PayloadsTo(cs, a) ==
    IF cs = <<>> THEN <<>>
    ELSE (IF Head(cs).to = a THEN Head(cs).batch.payloads ELSE <<>>)
             \o PayloadsTo(Tail(cs), a)

\* the queue after a call that ended as r, and what the call handed over
QueueInstall(r) ==
    /\ batch_queue' = r.queue
    /\ calls' = r.calls
    /\ handed' = [a \in Addrs |-> handed[a] \o PayloadsTo(r.calls, a)]

\* the packet is recorded unless the call raised KeyError
Recorded(r, kind, packet, addr) ==
    /\ appended' = IF r.raised THEN appended
                   ELSE [appended EXCEPT ![addr] = Append(@, packet)]
    /\ event' = [kind |-> IF r.raised THEN "KeyError" ELSE kind, addr |-> addr,
                 packet |-> packet]

QueueAppend ==
    /\ Accepted < MaxAppend
    /\ \E a \in Addrs : \E t \in QueueTypes :
          \E r \in {GamePacketQueueAppend(batch_queue, GamePacket(t), a)} :
              /\ QueueInstall(r)
              /\ Recorded(r, "append", GamePacket(t), a)
    /\ UNCHANGED <<endpointVars, gameVars, clientVars, obs, nrecv, linkVars, task, idle>>

QueueSend ==
    /\ QueueInstall(GamePacketQueueSend(batch_queue))
    /\ event' = [kind |-> "send", addr |-> NoAddr, packet |-> NoPacket]
    /\ UNCHANGED <<endpointVars, gameVars, clientVars, obs, nrecv, linkVars, task, idle, appended>>

QueueSendImmediately ==
    /\ Accepted < MaxAppend
    /\ \E a \in Addrs : \E t \in QueueTypes :
          \E r \in {GamePacketQueueSendImmediately(batch_queue, GamePacket(t), a)} :
              /\ QueueInstall(r)
              /\ Recorded(r, "send_immediately", GamePacket(t), a)
    /\ UNCHANGED <<endpointVars, gameVars, clientVars, obs, nrecv, linkVars, task, idle>>

NextQueue == QueueAppend \/ QueueSend \/ QueueSendImmediately

SpecQueue == Init /\ [][NextQueue]_vars

(***************************************************************************)
(* Properties of the batch queue.                                          *)
(***************************************************************************)
\* a step that flushed
Flushed(ev) == ev.kind \in {"send", "send_immediately"}

Encoded(packets) == [i \in 1 .. Len(packets) |-> EncodeGamePacket(packets[i])]

\* of the packets accepted for a (app), those behind the ones handed over (han)
SinceFlush(app, han, a) == SubSeq(app[a], Len(han[a]) + 1, Len(app[a]))

\* the packets the queue holds for a
PendingOf(bq, a) ==
    IF \E i \in DOMAIN bq : bq[i].addr = a
    THEN [i \in 1 .. Len(bq[IndexOf(bq, a)].packets) |->
             bq[IndexOf(bq, a)].packets[i].packet]
    ELSE <<>>

\* C17: for every destination, the batches a flush hands over for it hold,
\* read batch after batch, exactly the packets accepted for it since the
\* previous flush, in the order of the appends; every packet of a batch has
\* the reliability the batch is sent with, and was appended for the address
\* the batch is sent to.
C17_FlushOrder ==
    [][Flushed(event')
          => /\ \A a \in Addrs :
                   PayloadsTo(calls', a) = Encoded(SinceFlush(appended', handed, a))
             /\ \A k \in DOMAIN calls' :
                   \A j \in DOMAIN calls'[k].batch.payloads :
                       /\ RELIABILITY[calls'[k].batch.payloads[j].encoded.id]
                              = calls'[k].reliability
                       /\ calls'[k].batch.payloads[j].encoded
                              \in Range(appended'[calls'[k].to])]_vars

\* a flush handed over one batch of two packets for a1 and one batch of one
\* packet for a2
C17_Witness ==
    /\ event.kind = "send"
    /\ Len(PayloadsTo(calls, "a1")) = 2
    /\ Len(PayloadsTo(calls, "a2")) = 1
    /\ Len(calls) = 2

\* C18: every accepted packet is handed over exactly once: in every state
\* the packets handed over for a destination followed by those its list still
\* holds are the packets accepted for it, in order; a flush leaves every list
\* empty; and a send that finds the lists empty hands over no packet.
C18_ExactlyOnce ==
    /\ [](\A a \in Addrs :
             handed[a] \o Encoded(PendingOf(batch_queue, a)) = Encoded(appended[a]))
    /\ [][Flushed(event')
             => \A a \in Addrs : PendingOf(batch_queue', a) = <<>>]_vars
    /\ [][(event'.kind = "send" /\ \A a \in Addrs : PendingOf(batch_queue, a) = <<>>)
             => \A a \in Addrs : PayloadsTo(calls', a) = <<>>]_vars

\* after all packets were appended and flushed, a second send found the lists
\* empty
C18_Witness ==
    /\ event.kind = "send"
    /\ Accepted = MaxAppend
    /\ Len(handed["a1"]) + Len(handed["a2"]) = MaxAppend
    /\ handed["a1"] # <<>>
    /\ handed["a2"] # <<>>
    /\ \A a \in Addrs : PayloadsTo(calls, a) = <<>>

(***************************************************************************)
(* One client's game session: it connects, its game packets reach the      *)
(* handler in any order, and its session's update timer sends what is      *)
(* pending.                                                                *)
(***************************************************************************)
\* an MTU that holds the two batches of a login
GameMtu == 4

\* the radii a client may ask for
Radii == {0, 8, 40}

\* the game packets of a client
GameInputs ==
    {Packet("LOGIN", 0), Packet("RESOURCE_PACK_CLIENT_RESPONSE", 0),
     Packet("MOVE_PLAYER", 0)}
        \cup {Packet("REQUEST_CHUNK_RADIUS", r) : r \in Radii}

\* the handler state for the client at a, before a step
GameState(a) ==
    [player |-> player[a], bq |-> batch_queue, e |-> Endpoint, world |-> world,
     next_entity_id |-> next_entity_id,
     calls |-> <<>>, accepted |-> <<>>, raised |-> FALSE]

\* the state after the handler ended as g
GameInstall(g, a) ==
    /\ Install(g.e)
    /\ QueueInstall([queue |-> g.bq, calls |-> g.calls])
    /\ appended' = [appended EXCEPT ![a] = @ \o g.accepted]
    /\ player' = [player EXCEPT ![a] = g.player]
    /\ world' = g.world
    /\ next_entity_id' = g.next_entity_id

\* the client connects, or connects again: a new session and game session
GameConnect ==
    /\ nrecv < MaxDatagrams
    /\ Receive([type |-> "OPEN_CONNECTION_REQUEST2", mtu |-> GameMtu], "a1")
    /\ player' = [player EXCEPT !["a1"] = NewGameSession]
    /\ UNCHANGED <<task, idle, queueVars, world, next_entity_id, clientVars, obs,
                   linkVars>>

\* handler.data_received with a game packet of the client; an exception of
\* the handler leaves datagram_received, which catches SessionNotFound only
GameData ==
    /\ Tracked("a1")
    /\ nrecv < MaxDatagrams
    /\ \E packet \in GameInputs :
          \E g \in {HandlerGamePacket(GameState("a1"), packet, "a1")} :
              /\ GameInstall(g, "a1")
              /\ event' = [kind |-> IF g.raised THEN "failure" ELSE "game",
                           addr |-> "a1", packet |-> packet]
    /\ nrecv' = nrecv + 1
    /\ UNCHANGED <<task, idle, clientVars, obs, linkVars>>

GameTick ==
    /\ Tracked("a1")
    /\ sessions["a1"].pending # <<>>
    /\ Tick("a1")

NextGame == GameConnect \/ GameData \/ GameTick

SpecGame == Init /\ [][NextGame]_vars

(***************************************************************************)
(* Properties of the game session.                                         *)
(***************************************************************************)
\* a step in which the handler took a game packet of the type from a client
\* whose game session was in the state
Took(ev, id, state) ==
    /\ ev.kind \in {"game", "failure"}
    /\ ev.packet.id = id
    /\ player[ev.addr].state = state

\* the frame that carries one batch of one packet on channel 0
BatchFrame(f, packet) ==
    /\ f.rel = RELIABLE_ORDERED
    /\ f.chan = 0
    /\ f.split = NoSplit
    /\ f.payload = <<Batch(<<EncodeGamePacket(packet)>>)>>

\* the frames are those of a login: PLAY_STATUS(LOGIN_SUCCESS), then
\* RESOURCE_PACKS_INFO, each alone in its batch
LoginFrames(frames) ==
    /\ Len(frames) = 2
    /\ BatchFrame(frames[1], LoginReplies[1])
    /\ BatchFrame(frames[2], LoginReplies[2])
    /\ frames[2].oidx = frames[1].oidx + 1

FrameSetsIn(datagrams) == SelectSeq(datagrams, LAMBDA d : d.packet.type = "FRAME_SET")

\* C13: a LOGIN in AWAITING_LOGIN is answered by PLAY_STATUS(LOGIN_SUCCESS)
\* and then RESOURCE_PACKS_INFO and by no other game packet, each in a batch
\* of its own and each batch in a reliable ordered frame of its own; the game
\* session moves to AWAITING_RESOURCE_RESPONSE; and the session's next update
\* sends the two frames in one FRAME_SET.
C13_Login ==
    /\ [][Took(event', "LOGIN", AWAITING_LOGIN)
             => /\ event'.kind = "game"
                /\ Len(calls') = 2
                /\ PayloadsTo(calls', "a1") = Encoded(LoginReplies)
                /\ player'["a1"].state = AWAITING_RESOURCE_RESPONSE
                /\ Len(sessions'["a1"].pending) = Len(sessions["a1"].pending) + 2
                /\ LoginFrames(SubSeq(sessions'["a1"].pending,
                                      Len(sessions["a1"].pending) + 1,
                                      Len(sessions'["a1"].pending)))]_vars
    /\ [][(event'.kind = "tick" /\ LoginFrames(sessions["a1"].pending))
             => /\ Len(FrameSetsIn(sent')) = 1
                /\ FrameSetsIn(sent')[1].to = "a1"
                /\ FrameSetsIn(sent')[1].packet.frames = sessions["a1"].pending]_vars

\* the update after a login has sent one FRAME_SET with the two batches
C13_Witness ==
    /\ event.kind = "tick"
    /\ player["a1"].state = AWAITING_RESOURCE_RESPONSE
    /\ handed["a1"] = Encoded(LoginReplies)
    /\ Len(FrameSetsIn(sent)) = 1
    /\ LoginFrames(FrameSetsIn(sent)[1].packet.frames)

\* C14: in AWAITING_RESOURCE_RESPONSE the first
\* RESOURCE_PACK_CLIENT_RESPONSE(COMPLETED) is answered by exactly
\* RESOURCE_PACK_STACK; the second by the spawn prelude, START_GAME to
\* PLAYER_LIST in order, after which the game session is in
\* AWAITING_CHUNK_RADIUS; and no packet of these fails to be enqueued.
C14_ResourcePacks ==
    [][Took(event', "RESOURCE_PACK_CLIENT_RESPONSE", AWAITING_RESOURCE_RESPONSE)
          => /\ event'.kind = "game"
             /\ ~player["a1"].stack_sent
                   => /\ PayloadsTo(calls', "a1")
                            = Encoded(<<Packet("RESOURCE_PACK_STACK", 0)>>)
                      /\ player'["a1"].state = AWAITING_RESOURCE_RESPONSE
             /\ player["a1"].stack_sent
                   => /\ PayloadsTo(calls', "a1")
                            = Encoded(SpawnPrelude(player["a1"].entity_runtime_id))
                      /\ player'["a1"].state = AWAITING_CHUNK_RADIUS]_vars

\* the handler with the client's game session in AWAITING_CHUNK_RADIUS
AwaitingChunkRadius(a) ==
    [GameState(a) EXCEPT !.player = [@ EXCEPT !.state = AWAITING_CHUNK_RADIUS,
                                              !.stack_sent = TRUE]]

\* where the packet of the type and number is in the encoded packets, or 0
Position(payloads, packet) ==
    IF \E i \in DOMAIN payloads : payloads[i] = EncodeGamePacket(packet)
    THEN CHOOSE i \in DOMAIN payloads : payloads[i] = EncodeGamePacket(packet)
    ELSE 0

Expects ==
    [st \in {AWAITING_LOGIN, AWAITING_RESOURCE_RESPONSE, AWAITING_CHUNK_RADIUS,
             SPAWNED} |->
        CASE st = AWAITING_LOGIN -> {"LOGIN"}
          [] st = AWAITING_RESOURCE_RESPONSE -> {"RESOURCE_PACK_CLIENT_RESPONSE"}
          [] st = AWAITING_CHUNK_RADIUS -> {"REQUEST_CHUNK_RADIUS"}
          [] OTHER -> {"MOVE_PLAYER"}]

\* C16: a game packet the state of the game session does not expect is
\* dropped: the game session stays as it is, nothing is handed to the queue or
\* the session, no action reaches the collaborator, no exception leaves the
\* handler and the session stays tracked.
C16_UnexpectedDropped ==
    [][(/\ event'.kind \in {"game", "failure"}
        /\ event'.packet.id \notin Expects[player[event'.addr].state])
          => /\ event'.kind = "game"
             /\ player' = player
             /\ calls' = <<>>
             /\ batch_queue' = batch_queue
             /\ world' = world
             /\ sessions' = sessions
             /\ sent' = <<>>]_vars

\* a REQUEST_CHUNK_RADIUS and a MOVE_PLAYER came before the LOGIN, which was
\* then answered
C16_Witness ==
    /\ event.kind = "game"
    /\ event.packet.id = "LOGIN"
    /\ nrecv = 4
    /\ player["a1"].state = AWAITING_RESOURCE_RESPONSE
    /\ handed["a1"] = Encoded(LoginReplies)
    /\ Len(sessions["a1"].pending) = 2


(***************************************************************************)
(* The endpoint until it is shut down: clients connect and send, the       *)
(* sessions tick, the update loop runs, and at some moment run() leaves    *)
(* run_forever and executes its finally block.  Nothing is served          *)
(* afterwards.                                                             *)
(***************************************************************************)
Serving == event.kind # "terminate"

ShutdownConnect == Serving /\ Request2
ShutdownFrames == Serving /\ Frames
ShutdownTick == Serving /\ Ticks
ShutdownMoment == Serving /\ Moment

Terminate ==
    /\ Serving
    /\ \E r \in {RunFinally(Endpoint)} : Install(r)
    /\ task' = UpdateTaskCancel(task)
    /\ event' = [kind |-> "terminate", addr |-> NoAddr, packet |-> NoPacket]
    /\ UNCHANGED <<idle, queueVars, gameVars, clientVars, obs, nrecv, linkVars>>

NextShutdown ==
    ShutdownConnect \/ ShutdownFrames \/ ShutdownTick \/ ShutdownMoment \/ Terminate

SpecShutdown == Init /\ [][NextShutdown]_vars

\* the game packet DISCONNECT in its batch, as a session carries it
DisconnectBatch == Batch(<<EncodeGamePacket(Packet("DISCONNECT", 0))>>)
CarriesDisconnect(d, a) ==
    /\ d.to = a
    /\ d.packet.type = "FRAME_SET"
    /\ \E i \in DOMAIN d.packet.frames : d.packet.frames[i].payload = <<DisconnectBatch>>

\* what a flush of the session s sends to a
FlushOf(s, a) == [i \in 1 .. Len(SessionUpdate(s).out) |->
                     [to |-> a, packet |-> SessionUpdate(s).out[i]]]

\* C21: the shutdown step sends DISCONNECT to every client that has a
\* session, flushes once more what the sessions hold (their pending ACK
\* and NACK), cancels the task of the update loop and closes every tracked
\* session; after it the task does not run, every tracked session is closed
\* and no further step is taken.
C21_Shutdown ==
    /\ [][event'.kind = "terminate"
             => \A a \in DOMAIN sessions :
                   /\ \E i \in DOMAIN sent' : CarriesDisconnect(sent'[i], a)
                   /\ Range(FlushOf(sessions[a], a)) \subseteq Range(sent')]_vars
    /\ [](event.kind = "terminate"
             => /\ task # "running"
                /\ \A a \in DOMAIN sessions :
                      sessions[a].closed /\ sessions[a].sid \in closedSids)
    /\ [][event.kind # "terminate"]_vars


(***************************************************************************)
(* The client library against a server that follows the state machines of  *)
(* the specification.  The transport delivers every packet; game packets   *)
(* travel reliable and ordered, connection packets reliable and without    *)
(* order, so a connection packet may overtake.  The server pings the       *)
(* confirmed client now and then.                                          *)
(***************************************************************************)
MaxPing == 2
\* get_current_time() when start() is called
StartTimes == {1, 2}
\* the time of the other packets
Now == 0

serverVars ==
    <<endpointVars, event, obs, nrecv, linkVars, task, idle, queueVars, world,
      waiter, codec, blockVars>>

\* the positions of a queue that may be delivered next
Deliverable(q) ==
    {i \in DOMAIN q :
        IsConnectionPacket(q[i]) \/ \A j \in 1 .. (i - 1) : IsConnectionPacket(q[j])}
Without(q, i) == SubSeq(q, 1, i - 1) \o SubSeq(q, i + 1, Len(q))

ClientStarts ==
    /\ client.pc = "new"
    /\ \E now \in StartTimes : \E r \in {ClientStart(client, now)} :
          /\ client' = r.c
          /\ toServer' = toServer \o r.out
    /\ UNCHANGED <<serverVars, player, next_entity_id, remote, toClient>>

\* the coroutine start() goes on when the event it waits for is set
ClientResumes ==
    /\ \/ client.pc = "connecting" /\ client.connecting
       \/ client.pc = "activating" /\ client.is_active
    /\ \E r \in {IF client.pc = "connecting" THEN ClientLogin(client)
                 ELSE ClientReturn(client)} :
          /\ client' = r.c
          /\ toServer' = toServer \o r.out
    /\ UNCHANGED <<serverVars, player, next_entity_id, remote, toClient>>

ClientReceives ==
    /\ \E i \in Deliverable(toClient) :
          \E r \in {ClientDataReceived(client, toClient[i], Now)} :
              /\ client' = r.c
              /\ toServer' = toServer \o r.out
              /\ toClient' = Without(toClient, i)
    /\ UNCHANGED <<serverVars, player, next_entity_id, remote>>

ServerReceives ==
    /\ \E i \in Deliverable(toServer) :
          \E r \in {ServerReceive(remote, player["a1"], next_entity_id,
                                  toServer[i])} :
              /\ remote' = r.sv
              /\ player' = [player EXCEPT !["a1"] = r.player]
              /\ next_entity_id' = r.next
              /\ toClient' = toClient \o r.out
              /\ toServer' = Without(toServer, i)
    /\ UNCHANGED <<serverVars, client>>

ServerPings ==
    /\ remote.confirmed
    /\ remote.pings < MaxPing
    /\ remote' = [remote EXCEPT !.pings = @ + 1]
    /\ toClient' = Append(toClient, ConnectionPacket("CONNECTED_PING", Now))
    /\ UNCHANGED <<serverVars, player, next_entity_id, client, toServer>>

NextClient ==
    ClientStarts \/ ClientResumes \/ ClientReceives \/ ServerReceives \/ ServerPings

SpecClient == Init /\ [][NextClient]_vars

\* nothing is in flight and the coroutine start() waits or has ended
Settled ==
    /\ client.pc # "new"
    /\ toServer = <<>>
    /\ toClient = <<>>
    /\ ~(client.pc = "connecting" /\ client.connecting)
    /\ ~(client.pc = "activating" /\ client.is_active)

\* C22: start() sends LOGIN only when the connection is confirmed, the client
\* is active only when PLAY_STATUS(PLAYER_SPAWN) has been received, and
\* start() returns: when every packet has been delivered and answered, the
\* coroutine has not stopped short of its end.
C22_ClientStart ==
    /\ client.pc \in {"activating", "returned"} => client.connecting
    /\ client.is_active => Packet("PLAY_STATUS", PLAYER_SPAWN) \in client.log
    /\ Settled => client.pc = "returned"


(***************************************************************************)
(* The driver of a started client calls wait_response again and again,     *)
(* with and without a timeout, while packets arrive and timers expire at   *)
(* any moment.  The packets are of types the client has a method for.      *)
(***************************************************************************)
MaxWaits == 3
MaxPackets == 2
\* timeout = 0: no timeout; 1 stands for any timeout > 0
Timeouts == {0, 1}
WaitPackets == {Packet("SET_TIME", 0), Packet("PLAY_STATUS", LOGIN_SUCCESS)}

waitVars ==
    <<endpointVars, event, obs, nrecv, linkVars, task, idle, queueVars, gameVars,
      remote, toServer, toClient, codec, blockVars>>

WaitCall ==
    /\ waiter.wait = "idle"
    /\ waiter.calls < MaxWaits
    /\ \E timeout \in Timeouts : \E r \in {WaitResponseCall(waiter, client, timeout)} :
          /\ waiter' = r.w
          /\ client' = r.c
    /\ UNCHANGED waitVars

\* a packet reaches data_received; it counts for the call when the timer has
\* not expired before
PacketArrives ==
    /\ waiter.received < MaxPackets
    /\ \E packet \in WaitPackets : \E r \in {ClientDataReceived(client, packet, Now)} :
          /\ client' = r.c
          /\ waiter' = [EventSet(waiter) EXCEPT
                           !.received = @ + 1,
                           !.signalled = @ \/ (waiter.wait # "idle"
                                               /\ waiter.timer \in {"none", "sleeping"})]
    /\ UNCHANGED waitVars

\* the sleep of _timeout ends: its task is scheduled
TimerExpires ==
    /\ waiter.timer = "sleeping"
    /\ waiter' = [waiter EXCEPT !.timer = "expired", !.ready = Append(@, "timeout")]
    /\ UNCHANGED <<waitVars, client>>

RunReady ==
    /\ waiter.ready # <<>>
    /\ \E r \in {RunReadyTask(waiter, client)} :
          /\ waiter' = r.w
          /\ client' = r.c
    /\ UNCHANGED waitVars

WaitReturns ==
    /\ waiter.wait # "idle"
    /\ GatherDone(waiter)
    /\ waiter' = WaitResponseReturn(waiter)
    /\ UNCHANGED <<waitVars, client>>

NextWait == WaitCall \/ PacketArrives \/ TimerExpires \/ RunReady \/ WaitReturns

SpecWait == Init /\ [][NextWait]_vars

\* C23: a call of wait_response returns True exactly when a packet had been
\* received before its timer expired (a packet that came before the call and
\* was not yet waited for counts), and False otherwise; without a timeout it
\* does not return False; and the calls answered True are never more than
\* the packets received.
C23_WaitResponse ==
    /\ waiter.returned # "none" => (waiter.returned = "True" <=> waiter.signalled)
    /\ waiter.returned = "False" => waiter.timeout > 0
    /\ waiter.satisfied <= waiter.received

\* a call with a timeout has returned False after an earlier call was
\* answered True by a packet, and another packet came after the timer expired
C23_Witness ==
    /\ waiter.returned = "False"
    /\ waiter.satisfied = 1
    /\ waiter.received = 2
    /\ client.processed


(***************************************************************************)
(* The BATCH payload codec on every tuple of records, for a threshold      *)
(* below, among and above the payload lengths: write into an empty buffer, *)
(* then read what was written.                                             *)
(***************************************************************************)
MaxRecords == 2
MaxRecordLen == 2
Bytes == {0, 7}
Thresholds == {0, 3, 100}

ByteStrings == UNION {[1 .. n -> Bytes] : n \in 0 .. MaxRecordLen}
Tuples == UNION {[1 .. n -> ByteStrings] : n \in 0 .. MaxRecords}

CodecInputs ==
    {[NoCodec EXCEPT !.stage = "value", !.value = value, !.threshold = threshold] :
        value \in Tuples, threshold \in Thresholds}

InitCodec == \E cd \in CodecInputs : InitWith(cd)

codecRest ==
    <<endpointVars, event, obs, nrecv, linkVars, task, idle, queueVars, gameVars,
      client, remote, toServer, toClient, waiter, blockVars>>

CodecWrite ==
    /\ codec.stage = "value"
    /\ \E r \in {CompressedPacketListWrite(<<>>, codec.value, 0, codec.threshold)} :
          codec' = [codec EXCEPT !.stage = "written", !.written = r.data,
                                 !.wlength = r.length]
    /\ UNCHANGED codecRest

CodecRead ==
    /\ codec.stage = "written"
    /\ \E r \in {CompressedPacketListRead(codec.written, 0)} :
          codec' = [codec EXCEPT !.stage = "read", !.read = r.value,
                                 !.rest = r.data, !.rlength = r.length]
    /\ UNCHANGED codecRest

NextCodec == CodecWrite \/ CodecRead

SpecCodec == InitCodec /\ [][NextCodec]_vars

\* C24: what read takes from the bytes write produced is the tuple that was
\* written, record by record, at both deflate levels; write adds the number
\* of bytes it produced to the context length, read adds the number of
\* bytes it was given and leaves the buffer empty.
C24_BatchRoundTrip ==
    /\ codec.stage \in {"written", "read"} => codec.wlength = Len(codec.written)
    /\ codec.stage = "read"
          => /\ codec.read = codec.value
             /\ codec.rest = <<>>
             /\ codec.rlength = Len(codec.written)

\* a tuple with a record without bytes was written deflated and read back
C24_Witness ==
    /\ codec.stage = "read"
    /\ codec.value = <<<<>>, <<7, 7>>>>
    /\ codec.written[2] = COMPRESS_LEVEL
    /\ codec.read = codec.value

(***************************************************************************)
(* A session whose acknowledgements come late or not at all.  The endpoint *)
(* holds one session, configured with a small cap on its retransmit_queue; *)
(* the handler sends reliable payloads, the tick transmits and transmits   *)
(* again, and an ACK for a recorded frame set may arrive at any time.      *)
(***************************************************************************)
MaxCapSend == 3
MaxCapSeq == 6
Caps == {2, 3}

\* the session is allocated by the handshake and configured with the cap
CapConnect ==
    /\ sessions = EmptyMap
    /\ \E cap \in Caps :
          \E r \in {DatagramReceived(
                        Endpoint,
                        [type |-> "OPEN_CONNECTION_REQUEST2", mtu |-> 3], "a1")} :
              Install([r EXCEPT !.sessions["a1"].retransmit_cap = cap])
    /\ event' = [kind |-> "datagram", addr |-> "a1",
                 packet |-> [type |-> "OPEN_CONNECTION_REQUEST2", mtu |-> 3]]
    /\ nrecv' = nrecv + 1
    /\ UNCHANGED <<appVars, obs, linkVars>>

\* the handler sends the next payload, reliable and ordered on channel 0
CapSend ==
    /\ Tracked("a1")
    /\ ~Sender.closed
    /\ Enqueued < MaxCapSend
    /\ Install(GameDataReceived(Endpoint, LinkPayload(Enqueued), "a1",
                                Reliability(TRUE, 0)))
    /\ event' = [kind |-> "send", addr |-> "a1", packet |-> NoPacket]
    /\ UNCHANGED <<appVars, obs, nrecv, linkVars>>

CapTick ==
    /\ Tracked("a1")
    /\ TimerAlive(Sender)
    /\ Sender.send_seq_num < MaxCapSeq
    /\ Install(SessionTick(Endpoint, "a1"))
    /\ event' = [kind |-> "tick", addr |-> "a1", packet |-> NoPacket]
    /\ UNCHANGED <<appVars, obs, nrecv, linkVars>>

\* the ACK of one recorded frame set arrives
CapAck ==
    /\ Tracked("a1")
    /\ \E k \in DOMAIN Sender.retransmit_queue : Receive(AckPacket({k}), "a1")
    /\ UNCHANGED <<appVars, obs, linkVars>>

NextCap == CapConnect \/ CapSend \/ CapTick \/ CapAck

SpecCap == Init /\ [][NextCap]_vars

\* the frame sets a tick of session s has to transmit: its pending frames and
\* the frames of the entries that reach the retransmit timeout, packed
CapDemand(s) ==
    LET due == {k \in DOMAIN s.retransmit_queue :
                   s.retransmit_queue[k].age + 1 >= RetransmitTicks}
    IN  PackFrameSets(s.pending \o EntryFrames(s.retransmit_queue,
                                               SortedKeys(due), 1),
                      s.mtu)

\* C25: the retransmit_queue of a session never holds more entries than the
\* session's cap.  A tick whose frame sets (all reliable here) fit under the
\* cap records every one of them and leaves the session open; a tick that has
\* more frame sets to record than the cap leaves room for closes the session,
\* whose queue is dropped; no other step closes the session.
C25_RetransmitCap ==
    /\ [](Tracked("a1") =>
            Cardinality(DOMAIN Sender.retransmit_queue) <= Sender.retransmit_cap)
    /\ [][(Tracked("a1") /\ ~Sender.closed) =>
            LET s == Sender
                sn == sessions'["a1"]
                held == Cardinality(DOMAIN s.retransmit_queue)
                demand == Len(CapDemand(s))
            IN  IF event'.kind = "tick"
                THEN IF held + demand > s.retransmit_cap
                     THEN sn.closed /\ sn.retransmit_queue = EmptyMap
                                    /\ sn.pending = <<>>
                     ELSE /\ ~sn.closed
                          /\ Cardinality(DOMAIN sn.retransmit_queue) = held + demand
                          /\ Cardinality(FrameSetsOf(sent')) = demand
                ELSE ~sn.closed]_vars

\* the session has been closed by a tick that found the queue at its cap
C25_Witness ==
    /\ Tracked("a1")
    /\ Sender.closed
    /\ event.kind = "tick"
    /\ Sender.send_seq_num >= Sender.retransmit_cap

(***************************************************************************)
(* The order of the handshake.                                             *)
(***************************************************************************)
\* the step handles an OPEN_CONNECTION_REQUEST2 of address a
IsRequest2(a) ==
    nrecv' # nrecv /\ IsDatagram(event', a, {"OPEN_CONNECTION_REQUEST2"})

\* C26: OPEN_CONNECTION_REQUEST2 allocates a session only for an address in
\* HANDSHAKE_1.  An address that sends it as the first datagram the endpoint
\* ever receives has sent no OPEN_CONNECTION_REQUEST1 and gets no session; an
\* address that holds a session keeps that session, and no session id is
\* allocated.
C26_HandshakeOrdered ==
    /\ [](\A a \in Addrs :
             (nrecv = 1 /\ IsDatagram(event, a, {"OPEN_CONNECTION_REQUEST2"}))
                => ~Tracked(a))
    /\ [][\A a \in Addrs :
             (IsRequest2(a) /\ Tracked(a))
                => sessions'[a] = sessions[a] /\ nextSid' = nextSid]_vars

(***************************************************************************)
(* Frame sets that overtake one another.  The remote numbers its frame     *)
(* sets; frame set S carries the reliable-ordered frame of order index S   *)
(* on channel 0 and nothing else.  The network delivers the frame sets in  *)
(* any order and any number of times.                                      *)
(***************************************************************************)
LateFrameSet(seq) == FrameSetPacket(seq, <<OrderedFrame(0, seq)>>)

LateConnect ==
    /\ "a1" \notin DOMAIN sessions
    /\ \E mtu \in MtuSizes : RecvOpenConnectionRequest2("a1", mtu)

LateData ==
    /\ nrecv < MaxRecv
    /\ \E seq \in 0 .. MaxSeq : RecvFrameSet("a1", LateFrameSet(seq))

LateTick == Tick("a1")

NextLate == LateConnect \/ LateData \/ LateTick

SpecLate == Init /\ [][NextLate]_vars

\* the frames the session of a has accepted: surfaced, or buffered for
\* ordering
AcceptedFrames(a) ==
    Range(Delivered(a))
        \cup UNION {{sessions[a].recv_order_buffer[c][i] :
                        i \in DOMAIN sessions[a].recv_order_buffer[c]} :
                       c \in Channels}

\* C27: a sequence number waiting in the ack_queue belongs to a frame set
\* whose reliable frame has been accepted, surfaced or buffered: a frame set
\* that arrives late, below the expected number, is not acknowledged while its
\* frame is thrown away.
C27_AckedIsAccepted ==
    \A a \in DOMAIN sessions :
        \A seq \in sessions[a].ack_queue : OrderedFrame(0, seq) \in AcceptedFrames(a)

(***************************************************************************)
(* START_GAME, once in a game session.                                     *)
(***************************************************************************)
Completed == Packet("RESOURCE_PACK_CLIENT_RESPONSE", 0)
IsStartGame(payload) == payload.encoded.id = "START_GAME"

\* the handler with the client's game session past the negotiation
PastNegotiation(a, state) ==
    [GameState(a) EXCEPT !.player = [@ EXCEPT !.state = state,
                                              !.stack_sent = TRUE]]

\* C28: in a game session that has been sent START_GAME a further
\* RESOURCE_PACK_CLIENT_RESPONSE(COMPLETED) is not answered by START_GAME
\* again, and in AWAITING_CHUNK_RADIUS and SPAWNED it is answered by nothing
\* and leaves the game session as it is; START_GAME is sent only in a game
\* session that has been sent RESOURCE_PACK_STACK.
C28_StartGameOnce ==
    Tracked("a1") =>
        /\ (nextSid = 1 /\ \E payload \in Range(handed["a1"]) : IsStartGame(payload))
              => LET g == HandlerGamePacket(GameState("a1"), Completed, "a1")
                 IN  /\ \A payload \in Range(PayloadsTo(g.calls, "a1")) :
                           ~IsStartGame(payload)
                     /\ player["a1"].stack_sent
        /\ \A state \in {AWAITING_CHUNK_RADIUS, SPAWNED} :
              LET before == PastNegotiation("a1", state)
                  g == HandlerGamePacket(before, Completed, "a1")
              IN  /\ ~g.raised
                  /\ g.calls = <<>>
                  /\ g.player = before.player

(***************************************************************************)
(* Entity runtime ids.  Two clients connect, log in and negotiate the      *)
(* resource packs, in any order; each may connect again, which starts a    *)
(* new game session.                                                       *)
(***************************************************************************)
MaxEntitySteps == 6

EntityConnect ==
    /\ nrecv < MaxEntitySteps
    /\ \E a \in Addrs :
          /\ Receive([type |-> "OPEN_CONNECTION_REQUEST2", mtu |-> GameMtu], a)
          /\ player' = [player EXCEPT ![a] = NewGameSession]
    /\ UNCHANGED <<task, idle, queueVars, world, next_entity_id, clientVars, obs,
                   linkVars>>

EntityData ==
    /\ nrecv < MaxEntitySteps
    /\ \E a \in DOMAIN sessions :
          \E packet \in {Packet("LOGIN", 0), Completed} :
              \E g \in {HandlerGamePacket(GameState(a), packet, a)} :
                  /\ GameInstall(g, a)
                  /\ event' = [kind |-> IF g.raised THEN "failure" ELSE "game",
                               addr |-> a, packet |-> packet]
    /\ nrecv' = nrecv + 1
    /\ UNCHANGED <<task, idle, clientVars, obs, linkVars>>

NextEntity == EntityConnect \/ EntityData

SpecEntity == Init /\ [][NextEntity]_vars

\* the EntityRuntimeID of the game session of a
EntityOf(a) == player[a].entity_runtime_id

\* the START_GAME packets among the encoded packets
StartGames(payloads) ==
    {payload.encoded : payload \in {q \in Range(payloads) : IsStartGame(q)}}

\* C29: the ids of two game sessions that hold one differ, and every id held
\* is below the server's counter, which never decreases; a game session gets
\* its id in the step that takes its LOGIN, and the id is not below the
\* counter, so it is greater than every id assigned before, to a session of
\* any address and to an earlier session of the same address; and a
\* START_GAME sent to a client carries the id of that client's game session.
C29_EntityRuntimeIds ==
    /\ [](\A a \in Addrs :
             /\ EntityOf(a) # NoId => EntityOf(a) < next_entity_id
             /\ \A b \in Addrs \ {a} :
                   EntityOf(a) # NoId => EntityOf(a) # EntityOf(b))
    /\ [][/\ next_entity_id' >= next_entity_id
          /\ \A a \in Addrs :
                /\ (EntityOf(a)' # EntityOf(a) /\ EntityOf(a)' # NoId)
                      => /\ EntityOf(a)' >= next_entity_id
                         /\ event' = [kind |-> "game", addr |-> a,
                                      packet |-> Packet("LOGIN", 0)]
                /\ (nrecv' # nrecv /\ event'.kind \in {"game", "failure"})
                      => \A packet \in StartGames(PayloadsTo(calls', a)) :
                            packet.n = EntityOf(a) /\ packet.n # NoId]_vars

\* a1 logged in after a2 and has been sent START_GAME with the second id,
\* while a2 holds the first
C29_Witness ==
    /\ EntityOf("a2") = FirstEntityId
    /\ EntityOf("a1") = FirstEntityId + 1
    /\ StartGames(handed["a1"]) = {Packet("START_GAME", FirstEntityId + 1)}

(***************************************************************************)
(* Frame sets as they are on the wire.  The remote packs up to             *)
(* MaxWireFrames frames of every shape back to back into a frame set of    *)
(* any of the three type tags, the first frame set of its session.  codec  *)
(* holds what the step observed: the frames the remote packed and the      *)
(* result of the decoding loop.                                            *)
(***************************************************************************)
MaxWireFrames == 2

FrameSetTags == {"FRAME_SET_4", "FRAME_SET_8", "FRAME_SET_C"}

\* frames with and without payload, of every layout of the conditional fields
WireFrames ==
    {Frame(UNRELIABLE, -1, -1, -1, -1, NoSplit, <<>>),
     Frame(RELIABLE, 1, -1, -1, -1, NoSplit, <<9>>),
     Frame(RELIABLE_ORDERED, 2, -1, 0, 1, NoSplit, <<8, 7>>),
     Frame(RELIABLE_SEQUENCED, 3, 0, 0, 0, NoSplit, <<6>>),
     Frame(RELIABLE, 300, -1, -1, -1, [count |-> 2, id |-> 1, index |-> 0], <<5>>)}

WireFrameSeqs == UNION {[1 .. n -> WireFrames] : n \in 0 .. MaxWireFrames}

WireConnect ==
    /\ "a1" \notin DOMAIN sessions
    /\ \E mtu \in MtuSizes : RecvOpenConnectionRequest2("a1", mtu)

WireReceive ==
    /\ Tracked("a1")
    /\ codec = NoCodec
    /\ \E tag \in FrameSetTags : \E seq \in 0 .. (MaxSeq - 1) :
          \E frames \in WireFrameSeqs :
              \E packet \in {[type |-> tag, seq |-> seq,
                              payload |-> EncodeFrames(frames)]} :
                  /\ Receive(packet, "a1")
                  /\ codec' = [stage |-> "decoded", frames |-> frames,
                               loop |-> DecodeLoop(packet.payload, 0, <<>>,
                                                   NewContext)]
    /\ UNCHANGED <<task, idle, queueVars, gameVars, client, remote, toServer,
                   toClient, waiter, blockVars, obs, linkVars>>

NextWire == WireConnect \/ WireReceive

SpecWire == Init /\ [][NextWire]_vars

\* C30: for a frame set of any of the three type tags, the decoding loop ends
\* without an exception with the frames the remote packed, in wire order, and
\* with length equal to the length of the payload; and the session is handed
\* these frames once, with the packet's sequence number: the session and
\* what it surfaced are those of one frame_received(seq, frames).
C30_FrameSetDecoded ==
    [][(nrecv' # nrecv /\ Tracked("a1") /\ event'.packet.type \in FrameSetTags)
          => LET packet == event'.packet
                 r == FrameReceived(sessions["a1"], packet.seq, codec'.frames)
             IN  /\ event'.kind = "datagram"
                 /\ ~codec'.loop.raised
                 /\ codec'.loop.frames = codec'.frames
                 /\ codec'.loop.length = Len(packet.payload)
                 /\ Tracked("a1")'
                 /\ sessions'["a1"] = r.s
                 /\ Delivered("a1")' = Delivered("a1") \o r.up]_vars

\* a frame set of the third tag with a fragment and then a frame without
\* payload has been decoded to its last byte
C30_Witness ==
    /\ event.kind = "datagram"
    /\ event.packet.type = "FRAME_SET_C"
    /\ codec.stage = "decoded"
    /\ Len(codec.frames) = MaxWireFrames
    /\ codec.frames[1].split # NoSplit
    /\ codec.frames[MaxWireFrames].payload = <<>>
    /\ codec.loop.frames = codec.frames
    /\ codec.loop.length = Len(event.packet.payload)
    /\ sessions["a1"].expected_recv_seq_num = event.packet.seq + 1

(***************************************************************************)
(* The callbacks of a session among several sessions.                      *)
(***************************************************************************)
\* the sequence s continues the sequence r
Extends(s, r) == Len(s) >= Len(r) /\ SubSeq(s, 1, Len(r)) = r

\* C31: with several sessions open, what the session created for an address
\* surfaces is delivered with that address and what it emits is sent to that
\* address; its callbacks never carry the address of a session created later.
C31_CallbacksBound ==
    [][/\ \A a \in DOMAIN sessions' : sessions'[a].addr = a
       /\ \A a \in Addrs :
             /\ (event'.kind = "tick" /\ event'.addr = a)
                   => \A i \in 1 .. Len(sent') : sent'[i].to = a
             /\ (nrecv' # nrecv /\ IsDatagram(event', a, {"FRAME_SET"}))
                   => /\ a \in DOMAIN sessions => Extends(Delivered(a)', Delivered(a))
                      /\ \A b \in Addrs \ {a} : Delivered(b)' = Delivered(b)]_vars

\* the session of a1, created before the one of a2, has surfaced a frame and
\* its tick sends the acknowledgement, while a2 has surfaced nothing
C31_Witness ==
    /\ DOMAIN sessions = {"a1", "a2"}
    /\ sessions["a1"].sid < sessions["a2"].sid
    /\ event.kind = "tick" /\ event.addr = "a1"
    /\ sent # <<>> /\ \A i \in 1 .. Len(sent) : sent[i].to = "a1"
    /\ Delivered("a1") # <<>>
    /\ Delivered("a2") = <<>>

(***************************************************************************)
(* Sessions that leave the endpoint.  Clients connect and connect again,   *)
(* the handler sends them reliable payloads, they send frames and          *)
(* disconnect, the update loop removes the sessions the handler reports,   *)
(* and run() may shut the endpoint down.  Every Session object ticks on    *)
(* its own timer for as long as the timer lives, in _sessions or not.      *)
(***************************************************************************)
\* datagrams the endpoint receives in this scenario
MaxCloseRecv == 3
\* frame-set sequence numbers a session may use in this scenario
MaxCloseSeq == 2

CloseFrameSets ==
    {FrameSetPacket(0, <<f>>) : f \in {DisconnectFrame, OrderedFrame(0, 0)}}

CloseConnect ==
    /\ Serving
    /\ nrecv < MaxCloseRecv
    /\ \E a \in Addrs : RecvOpenConnectionRequest2(a, 3)

CloseFrames ==
    /\ Serving
    /\ nrecv < MaxCloseRecv
    /\ \E a \in Addrs : \E packet \in CloseFrameSets : RecvFrameSet(a, packet)

\* the handler sends a session its first payload, reliable and ordered
CloseSend ==
    /\ Serving
    /\ \E a \in DOMAIN sessions :
          /\ sessions[a].send_order_index[0] = 0
          /\ Install(GameDataReceived(Endpoint, LinkPayload(0), a, Reliability(TRUE, 0)))
          /\ event' = [kind |-> "send", addr |-> a, packet |-> NoPacket]
    /\ UNCHANGED <<appVars, obs, nrecv, linkVars>>

CloseTick ==
    /\ Serving
    /\ \E a \in DOMAIN sessions :
          /\ sessions[a].send_seq_num < MaxCloseSeq
          /\ Tick(a)

\* the timer of a Session object that is no longer in _sessions: its update
\* sends through the callback it was constructed with
DetachedTick(n) ==
    /\ n \in DOMAIN detached
    /\ TimerAlive(detached[n])
    /\ \E r \in {SessionUpdate(detached[n])} :
          /\ detached' = MapPut(detached, n, r.s)
          /\ sent' = [i \in 1 .. Len(r.out) |-> [to |-> r.s.addr, packet |-> r.out[i]]]
    /\ event' = [kind |-> "timer", addr |-> detached[n].addr,
                 packet |-> [type |-> "SESSION", sid |-> n]]
    /\ UNCHANGED <<sessions, closing, delivered, closedSids, nextSid, appVars, obs,
                   nrecv, linkVars>>

CloseTimer ==
    /\ Serving
    /\ \E n \in DOMAIN detached :
          /\ detached[n].send_seq_num < MaxCloseSeq
          /\ DetachedTick(n)

CloseMoment == Serving /\ Moment

NextClose ==
    \/ CloseConnect \/ CloseFrames \/ CloseSend \/ CloseTick \/ CloseTimer
    \/ CloseMoment \/ Terminate

SpecClose == Init /\ [][NextClose]_vars

\* every Session object the endpoint has constructed and not lost sight of
SessionObjects ==
    {sessions[a] : a \in DOMAIN sessions} \cup {detached[n] : n \in DOMAIN detached}

\* the session whose timer the step to the state with event ev ran, read in
\* the state before the step
Ticked(ev) ==
    IF ev.kind = "timer" THEN detached[ev.packet.sid] ELSE sessions[ev.addr]

\* C32: a session close() has been called on holds no queue any more and its
\* timer never runs again, so nothing is transmitted on its behalf, whatever
\* it held when it was closed.
C32_ClosedIsSilent ==
    [][/\ \A s \in SessionObjects' :
             s.sid \in closedSids'
                => /\ s.pending = <<>> /\ s.retransmit_queue = EmptyMap
                   /\ s.ack_queue = {} /\ s.nack_queue = {}
       /\ event'.kind \in {"tick", "timer"}
             => /\ Ticked(event').sid \notin closedSids
                /\ \A i \in 1 .. Len(sent') : sent'[i].to = Ticked(event').addr
       /\ event'.kind \in {"send", "moment", "idle", "terminate"} => sent' = <<>>]_vars

\* a session that had transmitted a reliable frame set, never acknowledged,
\* was removed and closed; a later session of the same address ticks
C32_Witness ==
    \E n \in DOMAIN detached :
        /\ n \in closedSids
        /\ detached[n].send_seq_num > 0
        /\ detached[n].retransmit_queue = EmptyMap
        /\ event.kind = "tick" /\ event.addr = detached[n].addr
        /\ sent # <<>>

\* C36: a Session object that is no longer the one tracked for its address
\* has been closed.
C36_UntrackedIsClosed == \A n \in DOMAIN detached : n \in closedSids

(***************************************************************************)
(* Flushes of destinations that hold nothing.                              *)
(***************************************************************************)
\* C33: a flush calls the send callback for no destination whose list holds
\* no packet, and every call carries at least one encoded packet and a
\* reliability.
C33_NoEmptyBatch ==
    [][Flushed(event')
          => /\ \A a \in Addrs :
                   SinceFlush(appended', handed, a) = <<>>
                      => \A k \in DOMAIN calls' : calls'[k].to # a
             /\ \A k \in DOMAIN calls' :
                   /\ calls'[k].batch.payloads # <<>>
                   /\ calls'[k].reliability # NoReliability]_vars

(***************************************************************************)
(* Flushes towards sessions that are gone.  Two clients connect, log in    *)
(* and disconnect; the handler queues packets for them at any time.  A     *)
(* round of the update loop reports a session in CLOSING or, when there    *)
(* is none, flushes the queue into the endpoint (spec.md 5 "Per-tick       *)
(* order"); the handler also flushes for every reply (send_immediately).   *)
(* SessionNotFound leaves the flush as game_data_received raised it.       *)
(***************************************************************************)
\* datagrams the endpoint receives in this scenario
MaxFlushRecv == 4
\* packets the handler queues on its own in this scenario
MaxFlushAppend == 2

FlushConnect ==
    /\ nrecv < MaxFlushRecv
    /\ \E a \in Addrs \ DOMAIN sessions :
          /\ Receive([type |-> "OPEN_CONNECTION_REQUEST2", mtu |-> GameMtu], a)
          /\ player' = [player EXCEPT ![a] = NewGameSession]
    /\ UNCHANGED <<task, idle, queueVars, world, next_entity_id, clientVars, obs,
                   linkVars>>

\* the client sends DISCONNECTION_NOTIFICATION
FlushDisconnect ==
    /\ nrecv < MaxFlushRecv
    /\ \E a \in DOMAIN sessions : RecvFrameSet(a, FrameSetPacket(0, <<DisconnectFrame>>))

\* a LOGIN reaches the handler from within datagram_received
FlushData ==
    /\ nrecv < MaxFlushRecv
    /\ \E a \in DOMAIN sessions \ closing :
          \E g \in {HandlerGamePacket(GameState(a), Packet("LOGIN", 0), a)} :
              /\ GameInstall([g EXCEPT !.e = CatchSessionNotFound(@, a)], a)
              /\ event' = [kind |-> IF g.e.raised THEN "caught"
                                    ELSE IF g.raised THEN "failure" ELSE "game",
                           addr |-> a, packet |-> Packet("LOGIN", 0)]
    /\ nrecv' = nrecv + 1
    /\ UNCHANGED <<task, idle, clientVars, obs, linkVars>>

\* the handler queues a packet for a client, to go out with the next flush
FlushAppend ==
    /\ Len(appended["a1"]) + Len(appended["a2"]) < MaxFlushAppend
    /\ \E a \in DOMAIN sessions \ closing :
          \E r \in {GamePacketQueueAppend(batch_queue, GamePacket("PLAY_STATUS"), a)} :
              /\ QueueInstall(r)
              /\ Recorded(r, "append", GamePacket("PLAY_STATUS"), a)
    /\ UNCHANGED <<endpointVars, gameVars, clientVars, obs, nrecv, linkVars, task, idle>>

\* a round of the update loop in which the handler reports a closing session
FlushReport ==
    /\ task = "running"
    /\ \E a \in closing :
          /\ Install(NextMoment(Endpoint, [kind |-> "SessionNotFound", addr |-> a]))
          /\ event' = [kind |-> "moment", addr |-> a, packet |-> NoPacket]
    /\ UNCHANGED <<appVars, obs, nrecv, linkVars>>

\* a round of the update loop in which the handler flushes the queue; the
\* rounds that find no packet for any session are left out
FlushRound ==
    /\ task = "running"
    /\ closing = {}
    /\ \E a \in DOMAIN sessions : PendingOf(batch_queue, a) # <<>>
    /\ \E f \in {FlushThrough(batch_queue, GamePacketQueueSend(batch_queue), Endpoint)} :
          \E u \in {IF f.e.raised THEN [kind |-> "SessionNotFound", addr |-> f.addr]
                     ELSE [kind |-> "returns", addr |-> NoAddr]} :
              /\ Install(NextMoment([f.e EXCEPT !.raised = FALSE], u))
              /\ QueueInstall([queue |-> f.queue, calls |-> f.calls])
              /\ event' = [kind |-> "flush", addr |-> u.addr, packet |-> NoPacket]
    /\ UNCHANGED <<task, idle, appended, gameVars, clientVars, obs, nrecv, linkVars>>

NextFlush ==
    \/ FlushConnect \/ FlushDisconnect \/ FlushData \/ FlushAppend
    \/ FlushReport \/ FlushRound

\* the update loop runs for ever: await self._next_moment() in while True
SpecFlush ==
    Init /\ [][NextFlush]_vars /\ WF_vars(FlushReport) /\ WF_vars(FlushRound)

\* C34: the packets queued for a destination with a session are handed to the
\* session by some flush, whatever becomes of the other destinations'
\* sessions.
C34_FlushIsolated ==
    \A a \in Addrs :
        (Tracked(a) /\ PendingOf(batch_queue, a) # <<>>)
            ~> (~Tracked(a) \/ PendingOf(batch_queue, a) = <<>>)

\* C35: the handling of a datagram removes and closes no session that was
\* tracked when the datagram arrived.
C35_OwnSessionKept ==
    [][nrecv' # nrecv
          => /\ DOMAIN sessions \subseteq DOMAIN sessions'
             /\ closedSids' = closedSids]_vars

(***************************************************************************)
(* The client and the echo of its request time: a server that answers with *)
(* any client time, before and after start() has sent the request.         *)
(***************************************************************************)
MaxEchoRecv == 3
\* the client times a CONNECTION_REQUEST_ACCEPTED may carry
EchoTimes == StartTimes \cup {Now}
\* get_current_time() when the packet is handled
HandleTimes == {Now, 3}

EchoStart ==
    /\ client.pc = "new"
    /\ \E now \in StartTimes : \E r \in {ClientStart(client, now)} :
          /\ client' = r.c
          /\ toServer' = toServer \o r.out
    /\ UNCHANGED <<endpointVars, obs, nrecv, linkVars, task, idle, queueVars, world,
                   waiter, codec, blockVars, player, next_entity_id, remote, toClient>>
    /\ event' = [kind |-> "start", addr |-> "a1", packet |-> NoPacket]

EchoDeliver(packet, now) ==
    /\ nrecv < MaxEchoRecv
    /\ \E r \in {ClientDataReceived(client, packet, now)} :
          /\ client' = r.c
          /\ toServer' = toServer \o r.out
    /\ nrecv' = nrecv + 1
    /\ event' = [kind |-> "received", addr |-> "a1", packet |-> packet, now |-> now]
    /\ UNCHANGED <<endpointVars, obs, linkVars, task, idle, queueVars, world,
                   waiter, codec, blockVars, player, next_entity_id, remote, toClient>>

EchoAccepted ==
    \E time \in EchoTimes : \E now \in HandleTimes :
        EchoDeliver(ConnectionPacket("CONNECTION_REQUEST_ACCEPTED", time), now)

EchoPong == EchoDeliver(ConnectionPacket("CONNECTED_PONG", Now), Now)

NextEcho == EchoStart \/ EchoAccepted \/ EchoPong

SpecEcho == Init /\ [][NextEcho]_vars

\* the state of the connection the client keeps; data_received marks every
\* packet as processed, whatever its handler does
ConnectionState(c) ==
    [pc |-> c.pc, connecting |-> c.connecting, is_active |-> c.is_active,
     request_time |-> c.request_time, entity_runtime_id |-> c.entity_runtime_id]

IsAccepted(ev) ==
    ev.kind = "received" /\ ev.packet.type = "CONNECTION_REQUEST_ACCEPTED"

\* C37: on CONNECTION_REQUEST_ACCEPTED whose echoed client time is the time
\* of the client's CONNECTION_REQUEST the client sends NEW_INCOMING_CONNECTION
\* and then a ping, in that order and nothing else; on one with any other
\* client time it sends nothing; in both cases the state of the connection
\* is as before.
C37_MatchingEcho ==
    [][IsAccepted(event')
          => /\ toServer' =
                   IF event'.packet.time = client.request_time
                   THEN toServer
                            \o <<ConnectionPacket("NEW_INCOMING_CONNECTION", event'.now),
                                 ConnectionPacket("CONNECTED_PING", event'.now)>>
                   ELSE toServer
             /\ ConnectionState(client') = ConnectionState(client)]_vars

\* the client has been answered with the time of another start, which it
\* left unanswered, and then with its own, which it answered
C37_Witness ==
    /\ client.request_time = 1
    /\ ConnectionPacket("CONNECTION_REQUEST_ACCEPTED", 2) \in client.log
    /\ ConnectionPacket("CONNECTION_REQUEST_ACCEPTED", 1) \in client.log
    /\ toServer = <<ConnectionPacket("CONNECTION_REQUEST", 1),
                    ConnectionPacket("NEW_INCOMING_CONNECTION", 3),
                    ConnectionPacket("CONNECTED_PING", 3)>>


(***************************************************************************)
(* The world's blocks: Space of mcpe/world/space.py and the block          *)
(* specifications of mcpe/world/block.py.  A block is [type, data]; a      *)
(* chunk is an object [blocks, is_updated] whose set_block marks it as     *)
(* updated; a position of the world is a chunk position and a position in  *)
(* the chunk.  The space is                                                *)
(*   sp = [cache, chunks, asked, saved, op]                                *)
(* cache: chunk position -> chunk object (its index in chunks); chunks:    *)
(* the chunk objects the generator has made, in order; asked: the chunk    *)
(* positions generate_chunk was called with, in order; saved: the chunk    *)
(* objects the last save() handed to store.save_chunk, with their          *)
(* positions; op: the last call and its outcome.                           *)
(***************************************************************************)
None == "None"
BLOCK_AIR == [type |-> "AIR", data |-> 0]
BlockTypes == {"AIR", "BEDROCK", "GRASS", "SNOW_LAYER"}

BlockSpec(item_type, max_layer_num, can_be_broken) ==
    [item_type |-> item_type, max_layer_num |-> max_layer_num,
     can_be_broken |-> can_be_broken]

\* _block_specs, for the block types of the model
BlockSpecs ==
    [type \in BlockTypes |->
        CASE type = "AIR" -> BlockSpec(None, 1, FALSE)
          [] type = "BEDROCK" -> BlockSpec(None, 1, FALSE)
          [] type = "GRASS" -> BlockSpec("DIRT", 1, TRUE)
          [] type = "SNOW_LAYER" -> BlockSpec(None, 8, TRUE)]

\* _BlockSpec.to_item(block_data)
ToItem(block_spec, block_data) ==
    IF block_spec.item_type # None
    THEN <<[type |-> block_spec.item_type, quantity |-> 1, data |-> block_data]>>
    ELSE <<>>

\* get_block_spec(block.type).to_item() as break_block calls it: block.py
\* defines no get_block_spec, and to_item of a block specification takes the
\* block data, which the call does not pass; the call raises
SpawnedItems(block) == [raised |-> TRUE, value |-> None]

ChunkPositions == {"c1", "c2"}
LocalPositions == {"p1", "p2"}
Positions == ChunkPositions \X LocalPositions
ChunkPositionAt(position) == position[1]
ToLocalPosition(position) == position[2]

\* the chunks a generator may return
GeneratedChunks ==
    {[blocks |-> [l \in LocalPositions |-> IF l = "p1" THEN [type |-> "BEDROCK", data |-> 0]
                                           ELSE top],
      is_updated |-> u] :
        top \in {[type |-> "SNOW_LAYER", data |-> 3]},
        u \in BOOLEAN}
\* the blocks a caller puts
PutBlocks == {[type |-> "GRASS", data |-> 0]}

ChunkSetBlock(chunk, position, block) ==
    [chunk EXCEPT !.blocks[position] = block, !.is_updated = TRUE]
\* the number of blocks of the column that are not air
ChunkGetHeight(chunk) ==
    Cardinality({l \in LocalPositions : chunk.blocks[l].type # "AIR"})

\* a get_chunk that asks the generator every time
GetChunkUncached(sp, position, generated) ==
    [sp |-> [sp EXCEPT !.chunks = Append(@, generated),
                       !.asked = Append(@, position),
                       !.cache = MapPut(@, position, Len(sp.chunks) + 1)],
     chunk |-> Len(sp.chunks) + 1]

\* get_chunk(request); generated is what generate_chunk would return
GetChunk(sp, position, generated) ==
    IF position \in DOMAIN sp.cache
    THEN [sp |-> sp, chunk |-> sp.cache[position]]
    ELSE [sp |-> [sp EXCEPT !.chunks = Append(@, generated),
                            !.asked = Append(@, position),
                            !.cache = MapPut(@, position, Len(sp.chunks) + 1)],
          chunk |-> Len(sp.chunks) + 1]

ToLocal(sp, position, generated) ==
    LET r == GetChunk(sp, ChunkPositionAt(position), generated)
    IN  [sp |-> r.sp, chunk |-> r.chunk, position_in_chunk |-> ToLocalPosition(position)]

Called(sp, name, position, result, raised, found) ==
    [sp EXCEPT !.op = [name |-> name, position |-> position, result |-> result,
                       raised |-> raised, found |-> found]]

SpaceGetChunk(sp, position, generated) ==
    LET r == GetChunk(sp, position, generated)
    IN  Called(r.sp, "get_chunk", position, r.chunk, FALSE, None)

GetHeight(sp, position, generated) ==
    LET l == ToLocal(sp, position, generated)
    IN  Called(l.sp, "get_height", position, ChunkGetHeight(l.sp.chunks[l.chunk]),
               FALSE, None)

BreakBlock(sp, position, generated) ==
    LET l == ToLocal(sp, position, generated)
        block == l.sp.chunks[l.chunk].blocks[l.position_in_chunk]
        items == SpawnedItems(block)
    IN  IF block.type \in {"AIR", "BEDROCK"}
        THEN Called(l.sp, "break_block", position, None, FALSE, block)
        ELSE Called([l.sp EXCEPT !.chunks[l.chunk] =
                                     ChunkSetBlock(@, l.position_in_chunk, BLOCK_AIR)],
                    "break_block", position, items.value, items.raised, block)

PutBlock(sp, position, block, generated) ==
    LET l == ToLocal(sp, position, generated)
    IN  Called([l.sp EXCEPT !.chunks[l.chunk] =
                                ChunkSetBlock(@, l.position_in_chunk, block)],
               "put_block", position, None, FALSE, block)

\* the cached chunks save() finds updated
Updated(sp) == {position \in DOMAIN sp.cache : sp.chunks[sp.cache[position]].is_updated}

Save(sp) ==
    Called([sp EXCEPT !.saved = {[position |-> position,
                                  chunk |-> sp.cache[position]] :
                                     position \in Updated(sp)},
                      !.chunks = [i \in DOMAIN sp.chunks |->
                                     IF \E position \in Updated(sp) : sp.cache[position] = i
                                     THEN [sp.chunks[i] EXCEPT !.is_updated = FALSE]
                                     ELSE sp.chunks[i]]],
           "save", None, None, FALSE, None)

spaceRest ==
    <<endpointVars, event, obs, nrecv, linkVars, task, idle, queueVars, gameVars,
      client, remote, toServer, toClient, waiter, codec, stack>>

CallGetChunk ==
    /\ \E position \in ChunkPositions : \E generated \in GeneratedChunks :
          space' = SpaceGetChunk(space, position, generated)
    /\ UNCHANGED spaceRest

CallGetHeight ==
    /\ \E position \in Positions : \E generated \in GeneratedChunks :
          space' = GetHeight(space, position, generated)
    /\ UNCHANGED spaceRest

CallBreakBlock ==
    /\ \E position \in Positions : \E generated \in GeneratedChunks :
          space' = BreakBlock(space, position, generated)
    /\ UNCHANGED spaceRest

CallPutBlock ==
    /\ \E position \in Positions : \E block \in PutBlocks :
          \E generated \in GeneratedChunks :
              space' = PutBlock(space, position, block, generated)
    /\ UNCHANGED spaceRest

CallSave ==
    /\ space' = Save(space)
    /\ UNCHANGED spaceRest

NextSpace == CallGetChunk \/ CallGetHeight \/ CallBreakBlock \/ CallPutBlock \/ CallSave

SpecSpace == Init /\ [][NextSpace]_vars

\* the block a read of the position finds, once its chunk is cached
BlockAt(sp, position) ==
    sp.chunks[sp.cache[ChunkPositionAt(position)]].blocks[ToLocalPosition(position)]
IsCached(sp, position) == ChunkPositionAt(position) \in DOMAIN sp.cache
TimesAsked(sp, position) == Cardinality({i \in DOMAIN sp.asked : sp.asked[i] = position})

\* C38: the generator is asked for a chunk position at most once; a cached
\* position keeps its chunk object, which is what every access returns; the
\* block at a position is the one the last put_block wrote or AIR after a
\* break_block that removed it, and no other call changes it; save() stores
\* exactly the cached chunks that were marked updated and clears the mark,
\* so a save() that follows a save() stores nothing.
C38_SpaceCache ==
    /\ [](\A position \in ChunkPositions : TimesAsked(space, position) <= 1)
    /\ [][/\ \A position \in DOMAIN space.cache :
                /\ position \in DOMAIN space'.cache
                /\ space'.cache[position] = space.cache[position]
          /\ space'.op.name = "get_chunk"
                => space'.op.result = space'.cache[space'.op.position]
          /\ space'.op.name \in {"get_height", "break_block", "put_block"}
                => IsCached(space', space'.op.position)
          /\ space'.op.name = "get_height"
                => space'.op.result =
                       ChunkGetHeight(space'.chunks[space'.cache[
                                          ChunkPositionAt(space'.op.position)]])
          /\ \A position \in Positions :
                IsCached(space, position)
                    => BlockAt(space', position) =
                           IF space'.op.name = "put_block"
                              /\ space'.op.position = position
                           THEN space'.op.found
                           ELSE IF /\ space'.op.name = "break_block"
                                   /\ space'.op.position = position
                                   /\ space'.op.found.type \notin {"AIR", "BEDROCK"}
                                THEN BLOCK_AIR
                                ELSE BlockAt(space, position)
          /\ space'.op.name = "save"
                => /\ space'.saved =
                          {[position |-> position,
                            chunk |-> space.cache[position]] :
                              position \in Updated(space)}
                   /\ Updated(space') = {}
                   /\ \A position \in Positions :
                         IsCached(space, position)
                             => BlockAt(space', position) = BlockAt(space, position)
          /\ space.op.name = "save" /\ space'.op.name = "save"
                => space'.saved = {}]_vars

\* a block was put into the one chunk the generator has made, and the save
\* after it stored that chunk and cleared its mark
C38_Witness ==
    /\ space.op.name = "save"
    /\ space.asked = <<"c1">>
    /\ space.chunks[1].blocks["p1"] = [type |-> "GRASS", data |-> 0]
    /\ space.saved = {[position |-> "c1", chunk |-> 1]}
    /\ ~space.chunks[1].is_updated

\* C39: break_block returns None and leaves the blocks as they are when it
\* finds AIR or BEDROCK at the position; for any other block it puts AIR in
\* its place and returns the items the block's specification spawns.
C39_BreakBlock ==
    [][space'.op.name = "break_block"
          => IF space'.op.found.type \in {"AIR", "BEDROCK"}
             THEN /\ space'.op.result = None
                  /\ ~space'.op.raised
                  /\ BlockAt(space', space'.op.position) = space'.op.found
             ELSE /\ BlockAt(space', space'.op.position) = BLOCK_AIR
                  /\ ~space'.op.raised
                  /\ space'.op.result =
                         ToItem(BlockSpecs[space'.op.found.type],
                                space'.op.found.data)]_vars


(***************************************************************************)
(* Stacking: FunctionalBlock.stack_on and the snow layer's stack_layer.    *)
(* A block here is [type, data, flags].  stack is                          *)
(*   [base, stacked, face, n, start]                                       *)
(* the block that lies, the block stacked on it, the face of the last      *)
(* stacking, the number of stackings so far and the layer data the base    *)
(* block began with.                                                       *)
(***************************************************************************)
MaxStack == 8
BlockCreate(block_type, data, flags) ==
    [type |-> block_type, data |-> data, flags |-> flags]

\* a stack_layer that compares with max_layer_num
SnowLayerStackLayerOffByOne(block_spec, base_block, stacked_block, face) ==
    LET layer_index == base_block.data + 1
    IN  IF layer_index # block_spec.max_layer_num
        THEN BlockCreate("SNOW_LAYER", layer_index, stacked_block.flags)
        ELSE BlockCreate("SNOW", 0, stacked_block.flags)

\* _SnowLayerBlockSpec.stack_layer
SnowLayerStackLayer(block_spec, base_block, stacked_block, face) ==
    LET layer_index == base_block.data + 1
    IN  IF layer_index # block_spec.max_layer_num - 1
        THEN BlockCreate("SNOW_LAYER", layer_index, stacked_block.flags)
        ELSE BlockCreate("SNOW", 0, stacked_block.flags)

\* FunctionalBlock(block).stack_on(base_block, face); a specification
\* without layers returns None
StackOn(block, base_block, face) ==
    IF block.type = "SNOW_LAYER"
    THEN SnowLayerStackLayer(BlockSpecs[block.type], base_block, block, face)
    ELSE None

Faces == {"BOTTOM", "TOP", "SOUTH", "NORTH", "EAST", "WEST"}
\* the layer data of a snow layer block
LayerData == 0 .. (BlockSpecs["SNOW_LAYER"].max_layer_num - 1)
\* the flags of a block: without and with neighbors
BlockFlags == {0, 1}

InitSnow ==
    \E d \in LayerData : \E base_flags \in BlockFlags : \E flags \in BlockFlags :
        InitAll(NoCodec,
                [base |-> BlockCreate("SNOW_LAYER", d, base_flags),
                 stacked |-> BlockCreate("SNOW_LAYER", 0, flags),
                 face |-> None, n |-> 0, start |-> d])

StackSnow ==
    /\ stack.base.type = "SNOW_LAYER"
    /\ stack.n < MaxStack
    /\ \E face \in Faces :
          stack' = [stack EXCEPT !.base = StackOn(stack.stacked, stack.base, face),
                                 !.face = face, !.n = @ + 1]
    /\ UNCHANGED <<endpointVars, event, obs, nrecv, linkVars, task, idle, queueVars,
                   gameVars, client, remote, toServer, toClient, waiter, codec, space>>

NextSnow == StackSnow

SpecSnow == InitSnow /\ [][NextSnow]_vars

\* C40: a snow layer stacked on a SNOW_LAYER block of layer data d gives
\* SNOW_LAYER with data d + 1 for d in 0..5 and SNOW with data 0 for d = 6;
\* from layer 0 the n-th stacking gives layer n for n up to 6 and SNOW at
\* the seventh; and no SNOW_LAYER that results has the layer data
\* max_layer_num - 1.
C40_SnowLayers ==
    /\ [](stack.start = 0
             => IF stack.n <= 6
                THEN stack.base.type = "SNOW_LAYER" /\ stack.base.data = stack.n
                ELSE stack.n = 7 /\ stack.base.type = "SNOW" /\ stack.base.data = 0)
    /\ [][stack'.n = stack.n + 1
             => /\ stack.base.data \in 0 .. 5
                      => stack'.base = BlockCreate("SNOW_LAYER", stack.base.data + 1,
                                                   stack.stacked.flags)
                /\ stack.base.data = 6
                      => stack'.base = BlockCreate("SNOW", 0, stack.stacked.flags)
                /\ stack'.base.type = "SNOW_LAYER"
                      => stack'.base.data
                             # BlockSpecs["SNOW_LAYER"].max_layer_num - 1]_vars

\* seven snow layers have been stacked on a block of layer 0, which has
\* become a SNOW block
C40_Witness ==
    /\ stack.start = 0
    /\ stack.n = 7
    /\ stack.base.type = "SNOW"


=============================================================================
